---- MODULE Spec2Model ----
(***************************************************************************)
(* A model of teltubby: the album aggregator, the dedup/job store, the     *)
(* ingestion pipeline (process_batch) and the large-file job life cycle    *)
(* (bot routing, /retry, /cancel and the MTProto worker).                  *)
(*                                                                         *)
(* The specifications share the module's variables; each one moves only    *)
(* the variables of its subsystem and leaves the others at their initial   *)
(* value:                                                                  *)
(*   SpecAlbum     AlbumAggregator.add_and_maybe_wait / pop_ready_albums   *)
(*   SpecStore     DedupIndex.record / purge_all / vacuum                  *)
(*   SpecPipeline  process_batch run by the message handler and the        *)
(*                 finalizer task, suspending at their awaits              *)
(*   SpecJobs      job routing, /retry, /cancel and Worker._on_message     *)
(*   SpecGuard     the aggregator's tasks and their per-group locks        *)
(*   SpecFlusher   SpecGuard with a fair finalizer loop                    *)
(*   SpecDispatch  the handler's routing loop and its hand-off to          *)
(*                 process_batch                                           *)
(*   SpecQuota     QuotaManager and the quota pause of the handler and     *)
(*                 the finalizer, in front of the routing loop             *)
(*   SpecTracker   QuotaManager.refresh_used_bytes / used_ratio alone      *)
(*   SpecRetry     SpecJobs for one job: /retry, /cancel and the worker    *)
(*   SpecSession   the worker's session check and recovery, the health     *)
(*                 monitor and the login codes sent with /mtcode           *)
(*   FairSession   SpecSession with a fair event loop                      *)
(*   SpecProbe     SpecSession without the monitor and the clock           *)
(*   SpecCodes     SpecSession reduced to the steps that touch the codes   *)
(*   SpecTemp      the temporary file of a job inside Worker._on_message   *)
(*   SpecUpsert    DedupIndex.upsert_job with every column of the row      *)
(*   SpecPublish   JobManager.publish_job and its payload validation       *)
(*   SpecGate      the whitelist gate in front of the bot's handlers       *)
(*   SpecNames     build_filename and the object keys of a batch           *)
(*   SpecPlainNames  SpecNames with ordinary file extensions only          *)
(*   SpecSimulate  the worker from start() on, in and out of simulate mode *)
(*   SpecLoop      the finalizer task, one released batch at a time        *)
(*   FairLoop      SpecLoop with a fair event loop                         *)
(***************************************************************************)
EXTENDS Integers, Sequences, FiniteSets

VARIABLES
  \* ---- album aggregator (ingest/album_aggregator.py)
  now,          \* time.monotonic(), in whole seconds
  buckets,      \* AlbumAggregator._buckets: a dict, kept in insertion order
  locks,        \* AlbumAggregator._locks: the group ids that have a lock entry
  added,        \* history: the messages handed to add_and_maybe_wait
  released,     \* history: the batches returned by add / pop_ready_albums
  lastRet,      \* history: what the last add_and_maybe_wait returned
  \* ---- the aggregator's tasks, step by step (album_aggregator.py, bot/service.py)
  running,      \* the task the event loop is running, "" between runs
  adder,        \* per message-handler task: its position in add_and_maybe_wait
  flusher,      \* the finalizer task: its position in its loop / pop_ready_albums
  lockOf,       \* _locks: group id -> the asyncio.Lock object stored for it
  lockGen,      \* per group: the number of Lock objects created for it so far
  held,         \* the Lock objects that are locked
  \* ---- dedup / job store (db/dedup.py)
  files,        \* table files: sha256 -> [s3_key, size_bytes]
  tg_map,       \* table tg_map: file_unique_id -> sha256
  jobs,         \* table jobs: job_id -> [state, last_error, payload]
  \* ---- object store and process_batch tasks (ingest/pipeline.py)
  s3objects,    \* the bucket: the set of object keys it holds
  manifests,    \* the message.json objects written, by base path
  putlog,       \* history: every successful put_object, numbered within its batch
  task,         \* per task: the state of its running process_batch
  used,         \* history: the messages already handed to process_batch
  finished,     \* history: how every process_batch call ended
  examined,     \* history: per item examined, the key the store mapped its uid to
                \*          and the dedup reason process_batch then set
  downloads,    \* history: the items for which bot.get_file was called
  \* ---- job queue, bot commands, worker (queue/, bot/service.py, mtproto/worker.py)
  queue,        \* Q_jobs: the job messages published and not yet delivered
  bot,          \* per bot task: its position in routing / retry
  handler,      \* per worker handler: its position in _on_message
  issued,       \* the number of job ids new_job_id has handed out
  jobLog,       \* history: every write to a job row: who, and the state before and after
  \* ---- the message handler's routing loop (bot/service.py _on_message)
  router,       \* the handler's position in the loop over the items
  routed,       \* history: per item, its declared size, the probe's answer, the path
  \* ---- quota tracker and the quota pause (quota/quota.py, bot/service.py)
  quota,        \* QuotaManager: _quota, _last_used_bytes, _last_refresh
  wall,         \* time.time(), in whole seconds
  bucketBytes,  \* the sum of the sizes of the objects in the bucket
  gated,        \* history: per ready batch, what the quota check decided
  refreshed,    \* history: the last used_ratio() call
  \* ---- the worker object and its counters (mtproto/worker.py, metrics/registry.py)
  worker,       \* Worker: _simulate_download, _auth_failure_count; JOBS_FAILED
  auth,         \* per task of the worker (handlers, health monitor): its position
                \* in the session check and recovery
  secrets,      \* table auth_secrets: the row of key mt_code
  authLog,      \* history: login attempts, codes submitted and consumed, notices
  \* ---- the bot's handlers and their gate (bot/service.py)
  inbox,        \* the update being handled: its position, and the replies sent
  \* ---- the name builder (utils/slugging.py) inside process_batch
  naming,       \* the batch whose files are being named, and the keys uploaded
  \* ---- the finalizer task of the bot (bot/service.py, _finalizer_loop)
  loop          \* its position, the batches released on this tick, their results

albumVars == <<now, buckets, locks, added, released, lastRet>>
storeVars == <<files, tg_map, jobs>>
pipeVars  == <<s3objects, manifests, putlog, task, used, finished, examined, downloads>>
jobVars   == <<queue, bot, handler, issued, jobLog>>
guardVars == <<running, adder, flusher, lockOf, lockGen, held>>
dispVars  == <<router, routed>>
quotaVars == <<quota, wall, bucketBytes, gated, refreshed>>
sessVars  == <<worker, auth, secrets, authLog>>
gateVars  == <<inbox>>
nameVars  == <<naming>>
loopVars  == <<loop>>
vars      ==
  <<albumVars, guardVars, storeVars, pipeVars, jobVars, dispVars, quotaVars, sessVars,
    gateVars, nameVars, loopVars>>

----------------------------------------------------------------------------
(* Generic helpers                                                         *)

RECURSIVE SumSeq(_)
SumSeq(s) == IF s = <<>> THEN 0 ELSE Head(s) + SumSeq(Tail(s))

RECURSIVE FlattenSeq(_)
FlattenSeq(ss) == IF ss = <<>> THEN <<>> ELSE Head(ss) \o FlattenSeq(Tail(ss))

SeqRange(s) == {s[i] : i \in 1..Len(s)}

RemoveAt(s, i) == [k \in 1..(Len(s) - 1) |-> IF k < i THEN s[k] ELSE s[k + 1]]

\* The number of positions of s that hold x.
CountIn(s, x) == Cardinality({i \in 1..Len(s) : s[i] = x})

----------------------------------------------------------------------------
(* Album aggregator                                                        *)

\* Model bounds.
Window  == 2      \* album_aggregation_window_seconds, scaled down
MaxTime == 3      \* the clock stops here
MaxMsgs == 3      \* messages handed to the aggregator

Groups  == {"G1", "G2"}
NoGroup == ""     \* message.media_group_id is None

\* A message as the aggregator sees it.
AlbumMsgs == [message_id : 1..MaxMsgs, media_group_id : Groups \cup {NoGroup}]

Pending     == [kind |-> "pending", items |-> <<>>]
Batch(items) == [kind |-> "batch", items |-> items]

\* dict lookup: the position of group g's bucket, 0 when absent.
BucketIdx(bs, g) ==
  IF \E i \in 1..Len(bs) : bs[i].mgid = g
  THEN CHOOSE i \in 1..Len(bs) : bs[i].mgid = g
  ELSE 0

AlbumBucket(g, t) ==
  [mgid |-> g, started_at_monotonic |-> t, items |-> <<>>, done |-> FALSE]

\* Every message without a group id is put into the group G1.
MediaGroupId_Shared(m) ==
  IF m.media_group_id = NoGroup THEN "G1" ELSE m.media_group_id

\* mgid = message.media_group_id
MediaGroupId(m) == m.media_group_id

\* The expiring bucket swallows the arriving message.
ReleaseExpired_Swallows(bs, ls, i, m) ==
  [buckets |-> RemoveAt(bs, i), locks |-> ls \ {bs[i].mgid},
   ret |-> Batch(Append(bs[i].items, m))]

\* The bucket at position i has expired: bucket.done = True, its items are
\* copied and returned, the bucket and the lock entry are deleted.  The
\* arriving message m is not appended.
ReleaseExpired(bs, ls, i, m) ==
  [buckets |-> RemoveAt(bs, i), locks |-> ls \ {bs[i].mgid},
   ret |-> Batch(bs[i].items)]

\* Every arrival starts the window of its bucket again.
Appended_Restarts(b, m, t) ==
  [b EXCEPT !.items = Append(@, m), !.started_at_monotonic = t]

\* bucket.items.append(message)
Appended(b, m, t) == [b EXCEPT !.items = Append(@, m)]

\* add_and_maybe_wait(message) at monotonic time t.  The body holds no await
\* once the (uncontended) lock is taken, so it runs as one step.
AddAndMaybeWait(bs, ls, t, m) ==
  LET mgid == MediaGroupId(m)
      i    == BucketIdx(bs, mgid)
  IN
  IF mgid = NoGroup
  THEN [buckets |-> bs, locks |-> ls, ret |-> Batch(<<m>>)]
  ELSE IF i # 0 /\ ~bs[i].done /\ t - bs[i].started_at_monotonic >= Window
  THEN ReleaseExpired(bs, ls, i, m)
  ELSE LET bs1 == IF i = 0 THEN Append(bs, AlbumBucket(mgid, t)) ELSE bs
           j   == BucketIdx(bs1, mgid)
       IN
       IF bs1[j].done
       THEN [buckets |-> bs1, locks |-> ls \cup {mgid}, ret |-> Batch(<<m>>)]
       ELSE LET bs2   == [bs1 EXCEPT ![j] = Appended(@, m, t)]
                items == bs2[j].items
            IN
            IF t - bs2[j].started_at_monotonic >= Window
            THEN [buckets |-> RemoveAt(bs2, j), locks |-> ls \ {mgid},
                  ret |-> Batch(items)]
            ELSE [buckets |-> bs2, locks |-> ls \cup {mgid}, ret |-> Pending]

\* The elapsed time is not looked at.
IsReady_OnlyDone(b, t) == b.done

\* Ready only once the window has been exceeded.
IsReady_Strict(b, t) == b.done \/ t - b.started_at_monotonic > Window

\* bucket.done or (now - bucket.started_at_monotonic) >= self._window
IsReady(b, t) == b.done \/ t - b.started_at_monotonic >= Window

\* pop_ready_albums() at monotonic time t: `now` is read once, no lock is ever
\* found held (no add is suspended inside its section), so every candidate is
\* removed, in dict order.
PopReadyAlbums(bs, ls, t) ==
  LET ready == SelectSeq(bs, LAMBDA b : IsReady(b, t))
      keep  == SelectSeq(bs, LAMBDA b : ~IsReady(b, t))
  IN [buckets |-> keep,
      locks   |-> ls \ {ready[i].mgid : i \in 1..Len(ready)},
      ready   |-> [i \in 1..Len(ready) |-> ready[i].items]]

InitAlbum ==
  /\ now = 0
  /\ buckets = <<>>
  /\ locks = {}
  /\ added = {}
  /\ released = <<>>
  /\ lastRet = Pending

----------------------------------------------------------------------------
(* Dedup / job store                                                       *)

Hashes == {"h1", "h2", "h3"}     \* sha256 digests of the contents in play
Uids   == {"u1", "u2", "u3", "u4"}
NoUid  == ""                     \* file_unique_id absent
NoHash == ""                     \* sha256 is None

\* An object key, base_path + file name.  The file name of an item is reduced
\* to its ordinal, the manifest's message.json is name 0.
NoKey == [base |-> 0, name |-> 0]

\* dict / table update: f with k bound to v.
Put(f, k, v) == [x \in (DOMAIN f) \cup {k} |-> IF x = k THEN v ELSE f[x]]

DuplicateResult(dup, key, reason) ==
  [is_duplicate |-> dup, existing_key |-> key, reason |-> reason]

\* A fast path that never hits.
CheckByUniqueId_NeverHits(fs, tm, uid) == DuplicateResult(FALSE, NoKey, "")

\* A content check that never hits.
CheckBySha256_NeverHits(fs, sha) == DuplicateResult(FALSE, NoKey, "")

\* SELECT f.s3_key FROM tg_map t JOIN files f ON f.sha256 = t.sha256 WHERE ...
CheckByUniqueId(fs, tm, uid) ==
  IF uid \in DOMAIN tm /\ tm[uid] \in DOMAIN fs
  THEN DuplicateResult(TRUE, fs[tm[uid]].s3_key, "file_unique_id")
  ELSE DuplicateResult(FALSE, NoKey, "")

CheckBySha256(fs, sha) ==
  IF sha \in DOMAIN fs
  THEN DuplicateResult(TRUE, fs[sha].s3_key, "sha256")
  ELSE DuplicateResult(FALSE, NoKey, "")

\* INSERT OR REPLACE in both tables.
Record_Replaces(fs, tm, sha, key, size, uid) ==
  [files  |-> Put(fs, sha, [s3_key |-> key, size_bytes |-> size]),
   tg_map |-> IF uid = NoUid THEN tm ELSE Put(tm, uid, sha)]

\* record(): INSERT OR IGNORE INTO files, then INSERT OR IGNORE INTO tg_map when
\* a file_unique_id is given.  The connection never enables foreign keys.
Record(fs, tm, sha, key, size, uid) ==
  [files  |-> IF sha \in DOMAIN fs THEN fs
              ELSE Put(fs, sha, [s3_key |-> key, size_bytes |-> size]),
   tg_map |-> IF uid = NoUid \/ uid \in DOMAIN tm THEN tm ELSE Put(tm, uid, sha)]

NoPayload == [job_id |-> 0]      \* payload_json is NULL
NoState   == ""                  \* the job has no row

JobState(js, j) == IF j \in DOMAIN js THEN js[j].state ELSE NoState

\* upsert_job(): INSERT ... ON CONFLICT(job_id) DO UPDATE SET state, priority,
\* updated_at, payload_json = COALESCE(excluded.payload_json, jobs.payload_json)
UpsertJob(js, j, state, priority, payload) ==
  IF j \in DOMAIN js
  THEN [js EXCEPT ![j].state = state,
                  ![j].priority = priority,
                  ![j].payload_json = IF payload = NoPayload THEN @ ELSE payload]
  ELSE Put(js, j, [state |-> state, priority |-> priority, last_error |-> "",
                   payload_json |-> payload])

\* update_job_state(): UPDATE jobs SET state, last_error, updated_at WHERE job_id
UpdateJobState(js, j, state, last_error) ==
  IF j \in DOMAIN js
  THEN [js EXCEPT ![j].state = state, ![j].last_error = last_error]
  ELSE js

\* purge_all(): DELETE FROM files, jobs, auth_secrets; tg_map is not in the list.
PurgeAll(fs, tm, js) == [files |-> <<>>, tg_map |-> tm, jobs |-> <<>>]

\* vacuum(): VACUUM rewrites the file, not the rows.
Vacuum(fs, tm, js) == [files |-> fs, tg_map |-> tm, jobs |-> js]

InitStore ==
  /\ files = <<>>
  /\ tg_map = <<>>
  /\ jobs = <<>>

----------------------------------------------------------------------------
(* Ingestion pipeline: process_batch                                       *)

BotLimit == 2     \* bot_api_max_file_size_bytes, scaled down
MaxBatch == 2     \* messages per batch
MaxIngested == 3  \* messages handed to process_batch in one run

MaxBytesCfg == BotLimit + 2      \* cfg.max_file_gb * 1024^3, scaled down

\* The size of the bytes with a given sha256.
SizeOf(sha) ==
  CASE sha = "h1" -> 1
    [] sha = "h2" -> BotLimit
    [] sha = "h3" -> BotLimit + 1
    [] OTHER      -> 0

\* The messages that can be handed to process_batch.  file_size 0 is a missing
\* size hint; content is the sha256 of the bytes get_file/download yields.
Msg(id, date, media, uid, sha, hint) ==
  [id |-> id, date |-> date, media |-> media, file_unique_id |-> uid,
   content |-> sha, file_size |-> hint]

Pool ==
  { Msg(1, 2, TRUE,  "u1", "h1", SizeOf("h1")),   \* a small file
    Msg(2, 1, TRUE,  "u2", "h1", 0),              \* the same bytes, another uid
    Msg(3, 2, TRUE,  "u1", "h1", SizeOf("h1")),   \* the file of message 1 again
    Msg(4, 1, TRUE,  "u3", "h2", SizeOf("h2")),   \* exactly at the limit
    Msg(5, 3, TRUE,  "u4", "h3", 0),              \* over the limit, no hint
    Msg(6, 1, FALSE, NoUid, NoHash, 0) }          \* no binary media

Tasks == {"handler", "finalizer"}

InjectiveSeq(s) == \A i, j \in 1..Len(s) : i # j => s[i] # s[j]

\* The batches that can be formed from the message set ms.
BatchesOf(ms) ==
  {s \in UNION {[1..n -> ms] : n \in 1..MaxBatch} : InjectiveSeq(s)}

\* The messages are left in arrival order.
SortByDate_Arrival(s) == s

\* sorted(messages, key=lambda m: m.date.timestamp()): stable.
RECURSIVE SortByDate(_)
SortByDate(s) ==
  IF s = <<>> THEN <<>>
  ELSE LET init == SortByDate(SubSeq(s, 1, Len(s) - 1))
           last == s[Len(s)]
           k    == Cardinality({i \in 1..Len(init) : init[i].date <= last.date})
       IN SubSeq(init, 1, k) \o <<last>> \o SubSeq(init, k + 1, Len(init))

ItemOutcome(ordinal, size, uid, sha, key, dup, skipped) ==
  [ordinal |-> ordinal, size_bytes |-> size, file_unique_id |-> uid,
   sha256 |-> sha, s3_key |-> key, is_duplicate |-> dup,
   skipped_reason |-> skipped]

IdleTask(t) ==
  [name |-> t, pc |-> "idle", messages |-> <<>>, sorted |-> <<>>, idx |-> 0,
   base |-> 0, outcomes |-> <<>>, duplicate_of |-> NoKey, dedup_reason |-> "",
   total_bytes_uploaded |-> 0]

\* process_batch up to its loop: base_path from messages[0], BatchResult(), sort.
NewTask(t, msgs) ==
  [name |-> t, pc |-> "running", messages |-> msgs, sorted |-> SortByDate(msgs),
   idx |-> 1, base |-> msgs[1].id, outcomes |-> <<>>, duplicate_of |-> NoKey,
   dedup_reason |-> "", total_bytes_uploaded |-> 0]

\* key = f"{base_path}{fname}", fname = build_filename(..., ordinal=idx, ...)
\* For the messages of Pool the name is told apart by the ordinal; the name
\* itself is built by BuildFilename below.
BuildKey(base, idx) == [base |-> base, name |-> idx]

JsonKey(base) == [base |-> base, name |-> 0]

\* Keys of the newly uploaded items only.
ArtifactKeys_NewOnly(res) ==
  LET fresh == SelectSeq(res.outcomes,
                 LAMBDA o : o.s3_key # NoKey /\ ~o.is_duplicate)
  IN [i \in 1..Len(fresh) |-> fresh[i].s3_key]

\* keys = [o.s3_key for o in res.outcomes if o.s3_key]
ArtifactKeys(res) ==
  LET withKey == SelectSeq(res.outcomes, LAMBDA o : o.s3_key # NoKey)
  IN [i \in 1..Len(withKey) |-> withKey[i].s3_key]

\* _build_json_artifact(cfg, messages, res)
BuildJsonArtifact(res) ==
  LET keys == ArtifactKeys(res)
  IN [base_path |-> res.base,
      files_count |-> Len(keys),
      total_bytes_uploaded |-> res.total_bytes_uploaded,
      keys |-> keys,
      duplicate_of |-> res.duplicate_of,
      dedup_reason |-> res.dedup_reason,
      items |-> [i \in 1..Len(res.outcomes) |->
                   [ordinal |-> res.outcomes[i].ordinal,
                    size_bytes |-> res.outcomes[i].size_bytes,
                    file_unique_id |-> res.outcomes[i].file_unique_id,
                    sha256 |-> res.outcomes[i].sha256,
                    s3_key |-> res.outcomes[i].s3_key]]]

\* sum(o.size_bytes or 0 for o in result.outcomes
\*     if o.s3_key and not result.duplicate_of)
TotalBytesUploaded(res) ==
  LET counted == SelectSeq(res.outcomes,
                   LAMBDA o : o.s3_key # NoKey /\ res.duplicate_of = NoKey)
  IN SumSeq([i \in 1..Len(counted) |-> counted[i].size_bytes])

\* How a process_batch call ended: returned its result, or raised at a step.
Ended(tr, status, step) ==
  [task |-> tr.name, base |-> tr.base, input |-> tr.messages,
   messages |-> tr.sorted,
   status |-> status, outcomes |-> tr.outcomes,
   total_bytes_uploaded |-> tr.total_bytes_uploaded,
   duplicate_of |-> tr.duplicate_of,
   failed_ordinal |-> IF status = "raised" THEN tr.idx ELSE 0,
   failed_step |-> step]

\* An exception leaves process_batch: nothing catches it inside, the caller's
\* handler logs it and reports the failure.
Raise(P, step) ==
  [P EXCEPT !.finished = @ \cup {Ended(P.task, "raised", step)},
            !.task = IdleTask(P.task.name)]

\* An upload that returns without having stored the object.
UploadFileobj_Dropped(P, key, sha, kind) == P

\* s3.upload_fileobj: put_object stores the object or raises.
UploadFileobj(P, key, sha, kind) ==
  [P EXCEPT !.s3objects = @ \cup {key},
            !.putlog = @ \cup
              {[key |-> key, sha |-> sha, kind |-> kind,
                seq |-> Cardinality({e \in P.putlog : e.key.base = key.base}) + 1]}]

\* After the loop: build the manifest, upload it, then total the bytes.
WriteManifest(P, manOk) ==
  LET artifact == BuildJsonArtifact(P.task)
      P1 == UploadFileobj(P, JsonKey(P.task.base), NoHash, "manifest")
      P2 == [P1 EXCEPT !.manifests = Put(@, P.task.base, artifact)]
      tr == [P2.task EXCEPT !.total_bytes_uploaded = TotalBytesUploaded(P2.task)]
  IN IF ~manOk THEN Raise(P, "manifest")
     ELSE [P2 EXCEPT !.finished = @ \cup {Ended(tr, "returned", "")},
                     !.task = IdleTask(tr.name)]

\* The manifest put inside the loop, once per item.
AddOutcome_ManifestPerItem(P, o) ==
  UploadFileobj([P EXCEPT !.task.outcomes = Append(@, o), !.task.idx = @ + 1],
                JsonKey(P.task.base), NoHash, "manifest")

\* result.outcomes.append(...); the for loop advances.
AddOutcome(P, o) ==
  [P EXCEPT !.task.outcomes = Append(@, o), !.task.idx = @ + 1]

\* The loop of process_batch from item task.idx on, up to its next await
\* (bot.get_file) or to the return.
RECURSIVE ProcessItems(_, _)
ProcessItems(P, manOk) ==
  LET tr  == P.task
      idx == tr.idx
  IN
  IF idx > Len(tr.sorted) THEN WriteManifest(P, manOk)
  ELSE
  LET m    == tr.sorted[idx]
      uid  == m.file_unique_id
      dres == CheckByUniqueId(P.files, P.tg_map, uid)
      Pseen == [P EXCEPT !.examined = @ \cup
                  {[base |-> tr.base, ordinal |-> idx, uid |-> uid,
                    mapped_key |-> IF uid \in DOMAIN P.tg_map
                                      /\ P.tg_map[uid] \in DOMAIN P.files
                                   THEN P.files[P.tg_map[uid]].s3_key
                                   ELSE NoKey,
                    reason_set |-> IF dres.is_duplicate THEN dres.reason ELSE ""]}]
  IN
  IF ~m.media
  THEN ProcessItems(
         AddOutcome(P, ItemOutcome(idx, 0, NoUid, NoHash, NoKey, FALSE, "no_media")),
         manOk)
  ELSE IF dres.is_duplicate
  THEN ProcessItems(
         AddOutcome([Pseen EXCEPT !.task.duplicate_of = dres.existing_key,
                                  !.task.dedup_reason = dres.reason],
                    ItemOutcome(idx, m.file_size, uid, NoHash,
                                dres.existing_key, TRUE, "")),
         manOk)
  ELSE IF m.file_size # 0 /\ (m.file_size > BotLimit \/ m.file_size > MaxBytesCfg)
  THEN ProcessItems(
         AddOutcome(Pseen, ItemOutcome(idx, m.file_size, uid, NoHash, NoKey, FALSE,
                      IF m.file_size > BotLimit THEN "exceeds_bot_limit"
                      ELSE "exceeds_cfg_limit")),
         manOk)
  ELSE [Pseen EXCEPT !.task.pc = "get_file",
                     !.downloads = @ \cup {[base |-> tr.base, ordinal |-> idx]}]

\* From the completed download of item task.idx to the next await or the return.
AfterDownload(P, upOk, manOk) ==
  LET tr   == P.task
      idx  == tr.idx
      m    == tr.sorted[idx]
      uid  == m.file_unique_id
      sha256 == m.content
      content_size == SizeOf(sha256)
      dsha == CheckBySha256(P.files, sha256)
      key  == BuildKey(tr.base, idx)
      Prun == [P EXCEPT !.task.pc = "running"]
  IN
  IF content_size > BotLimit \/ content_size > MaxBytesCfg
  THEN ProcessItems(
         AddOutcome(Prun, ItemOutcome(idx, content_size, uid, sha256, NoKey, FALSE,
                      IF content_size > BotLimit THEN "exceeds_bot_limit"
                      ELSE "exceeds_cfg_limit")),
         manOk)
  ELSE IF dsha.is_duplicate
  THEN ProcessItems(
         AddOutcome([Prun EXCEPT !.task.duplicate_of = dsha.existing_key,
                                 !.task.dedup_reason = dsha.reason],
                    ItemOutcome(idx, content_size, uid, sha256,
                                dsha.existing_key, TRUE, "")),
         manOk)
  ELSE IF ~upOk THEN Raise(Prun, "upload")
  ELSE LET P1 == UploadFileobj(Prun, key, sha256, "item")
           st == Record(P1.files, P1.tg_map, sha256, key, content_size, uid)
           P2 == [P1 EXCEPT !.files = st.files, !.tg_map = st.tg_map]
       IN ProcessItems(
            AddOutcome(P2, ItemOutcome(idx, content_size, uid, sha256, key, FALSE, "")),
            manOk)

\* The shared state a process_batch step reads and writes, with task t's own.
PipeState(t) ==
  [task |-> task[t], files |-> files, tg_map |-> tg_map, s3objects |-> s3objects,
   manifests |-> manifests, putlog |-> putlog, finished |-> finished,
   examined |-> examined, downloads |-> downloads]

InitPipe ==
  /\ s3objects = {}
  /\ manifests = <<>>
  /\ putlog = {}
  /\ task = [t \in Tasks |-> IdleTask(t)]
  /\ used = {}
  /\ finished = {}
  /\ examined = {}
  /\ downloads = {}

----------------------------------------------------------------------------
(* Large-file jobs: bot routing, /retry, /cancel, and the worker           *)

MaxJobs == 2             \* job ids handed out
MaxLog  == 5             \* bot commands stop once the write log is this long
WorkerConcurrency == 1   \* prefetch_count = max(1, cfg.worker_concurrency)

JobIds   == 1..MaxJobs
Handlers == 1..WorkerConcurrency

Payload(j) == [job_id |-> j]

IdleBot     == [pc |-> "idle", job |-> 0]
IdleHandler == [pc |-> "idle", job |-> 0]

\* What no job step touches.
notJobs ==
  <<albumVars, guardVars, files, tg_map, pipeVars, dispVars, quotaVars, sessVars,
    gateVars, nameVars, loopVars>>

\* One write to the jobs table, as the log keeps it.
Logged(js, js2, j, by) ==
  [job |-> j, by |-> by, from |-> JobState(js, j), to |-> JobState(js2, j)]

InitJobs ==
  /\ queue = <<>>
  /\ bot = [t \in Tasks |-> IdleBot]
  /\ handler = [h \in Handlers |-> IdleHandler]
  /\ issued = 0
  /\ jobLog = <<>>

\* Worker.__init__, and the JOBS_FAILED counter of the worker process.
\* tmp[h]: the file handler h made with mkstemp exists; tmp_left: the files
\* that were still there when their handler returned.
NewWorker ==
  [simulate_download |-> FALSE, auth_failure_count |-> 0, jobs_failed |-> 0,
   tmp |-> [h \in Handlers |-> FALSE], tmp_left |-> 0]

MaxAuthFailures == 3   \* self._max_auth_failures
FreshWindow == 1       \* the 10 minutes of _wait_code, scaled down
MaxLogins   == 3       \* login attempts (calls of _handle_session_expiry)
MaxCodes    == 2       \* /mtcode submissions

Monitor    == 0        \* the task running _monitor_session_health
AuthTasks  == Handlers \cup {Monitor}

NoSecret == [id |-> 0, created_at |-> 0]     \* no row for mt_code

IdleAuth ==
  [pc |-> "idle", probes |-> <<>>, recoveries |-> 0, attempt |-> 0,
   simulated |-> FALSE, prompted |-> FALSE, fetched |-> ""]

NoAuthLog ==
  [attempts |-> 0, streak |-> 0, codes |-> 0, consumed |-> {}, simulate_at |-> {}]

\* No update is being handled.
\* The finalizer sleeps; nothing was released yet.
SleepingLoop ==
  [pc |-> "sleep", tick |-> 0, ready |-> <<>>, batch |-> 0, queued |-> FALSE,
   rest |-> FALSE, res |-> "", results |-> <<>>, failed |-> FALSE,
   cancelled |-> FALSE]

\* No batch is being named; keys: the object keys uploaded for the batch.
IdleNaming ==
  [pc |-> "idle", chat_slug |-> <<>>, message_id |-> 0, media_group_id |-> <<>>,
   idx |-> 0, items |-> <<>>, keys |-> <<>>]

IdleInbox == [pc |-> "idle", update |-> [kind |-> "", user_id |-> 0, chat |-> ""],
              handled |-> 0, replies |-> 0]

InitSession ==
  /\ inbox = IdleInbox
  /\ naming = IdleNaming
  /\ loop = SleepingLoop
  /\ worker = NewWorker
  /\ auth = [a \in AuthTasks |-> IdleAuth]
  /\ secrets = NoSecret
  /\ authLog = NoAuthLog

\* What no step of the worker's message handling touches.
notWorker ==
  <<albumVars, guardVars, files, tg_map, pipeVars, dispVars, quotaVars, auth, secrets,
    authLog, gateVars, nameVars, loopVars>>

\* set_secret("mt_code", code, now): REPLACE INTO auth_secrets.
SetSecret(sec, id, t) == [id |-> id, created_at |-> t]

\* Every stored code is returned, whatever its age.
GetSecretSince_AnyAge(sec, since) == sec

\* get_secret_since("mt_code", since): the row, if created_at >= since.
GetSecretSince(sec, since) ==
  IF sec # NoSecret /\ sec.created_at >= since THEN sec ELSE NoSecret

\* The code that was read stays in the table.
DeleteSecret_Keeps(sec) == sec

\* delete_secret("mt_code")
DeleteSecret(sec) == NoSecret

\* The answers of client.get_me() inside _check_session_health.
HealthAnswers == {"me", "none", "raises"}

\* _check_session_health with get_me answering ans: the worker afterwards.
CheckSessionHealth(w, ans) ==
  CASE ans = "me"     -> [w EXCEPT !.auth_failure_count = 0]
    [] ans = "raises" -> [w EXCEPT !.auth_failure_count = @ + 1]
    [] OTHER          -> w

\* The except branch of _handle_session_expiry: simulate mode once the count
\* of failed probes has reached the maximum.
ExpiryFailed(w) ==
  IF w.auth_failure_count >= MaxAuthFailures
  THEN [w EXCEPT !.simulate_download = TRUE]
  ELSE w

\* The job goes on to its download whatever the second probe said.
AfterSecondProbe_GoesOn(healthy) == "download"

\* if not is_healthy: raise RuntimeError("Failed to recover MTProto session")
AfterSecondProbe(healthy) == IF healthy THEN "download" ELSE "raise"

----------------------------------------------------------------------------
(* The message handler's routing loop (_on_message)                        *)

IdleRouter ==
  [pc |-> "idle", caller |-> "handler", items |-> <<>>, i |-> 0,
   to_process |-> <<>>, job |-> 0, is_too_big |-> FALSE]

InitDispatch ==
  /\ router = IdleRouter
  /\ routed = {}

\* The items the handler can be given: the pool, and the file of message 5
\* sent with its size declared, one byte over the limit.
DispatchPool == Pool \cup {Msg(7, 2, TRUE, "u4", "h3", SizeOf("h3"))}

\* What bot.get_file does inside _check_file_size.
ProbeAnswers == {"ok", "too_big", "error"}

\* _check_file_size(m, finfo): (is_too_big, actual_size), None written as 0.
CheckFileSize(m, answer) ==
  CASE answer = "ok"      -> [is_too_big |-> FALSE, actual_size |-> SizeOf(m.content)]
    [] answer = "too_big" -> [is_too_big |-> TRUE,  actual_size |-> 0]
    [] OTHER              -> [is_too_big |-> FALSE, actual_size |-> m.file_size]

\* size_hint = finfo.get("file_size") or actual_size or 0
SizeHint(m, probe) == IF m.file_size # 0 THEN m.file_size ELSE probe.actual_size

\* The limit itself is already routed to the worker.
RouteToMtproto_AtLimit(is_too_big, size_hint) ==
  is_too_big \/ (size_hint # 0 /\ size_hint >= BotLimit)

\* if is_too_big or (size_hint and size_hint > bot_limit)
RouteToMtproto(is_too_big, size_hint) ==
  is_too_big \/ (size_hint # 0 /\ size_hint > BotLimit)

\* One line of the routing history.  call names the handler call by its first
\* item; path is "pipeline" (appended to to_process), "job" (published and
\* persisted), "publish_failed" (publish_job raised) or "aborted" (the loop
\* ended before it reached the item).
Routed(call, m, is_too_big, path, job) ==
  [call |-> call, id |-> m.id, declared |-> m.file_size,
   is_too_big |-> is_too_big, path |-> path, job |-> job]

\* The loop from item r.i on, up to its next await: an item without a file
\* goes to to_process; an item with one is probed.  log is the history.
RECURSIVE RouteItems(_, _)
RouteItems(r, log) ==
  IF r.i > Len(r.items)
  THEN [router |-> [r EXCEPT !.pc = "handoff"], routed |-> log]
  ELSE LET m == r.items[r.i]
       IN IF ~m.media
          THEN RouteItems([r EXCEPT !.to_process = Append(@, m), !.i = @ + 1],
                          log \cup {Routed(r.items[1].id, m, FALSE, "pipeline", 0)})
          ELSE [router |-> [r EXCEPT !.pc = "probe"], routed |-> log]

----------------------------------------------------------------------------
(* Quota tracker (quota/quota.py)                                          *)

QuotaBytes == 2        \* S3_BUCKET_QUOTA_BYTES, scaled down
CacheTtl   == 2        \* cache_ttl_seconds = 300, scaled down
MaxWall    == 2        \* the seconds the wall clock advances
MaxGated   == 2        \* ready batches brought to the quota check

MaxBucketBytes == QuotaBytes + 1
NoQuota == 0           \* self._quota is None

Min(a, b) == IF a <= b THEN a ELSE b

\* A ratio num/den; used_ratio() returning None is Unknown.
Unknown == [known |-> FALSE, num |-> 0, den |-> 1]
Ratio(n, d) == [known |-> TRUE, num |-> n, den |-> d]

AtLeastOne(r) == r.known /\ r.num >= r.den

\* QuotaManager.__init__
NewQuota(limit) == [quota |-> limit, last_used_bytes |-> 0, last_refresh |-> 0]

\* What list_objects can do while the bucket holds bytes: yield every object,
\* or raise after the objects it has yielded so far.
Listings(bytes) ==
  {[ok |-> TRUE, total |-> bytes]} \cup {[ok |-> FALSE, total |-> n] : n \in 0..bytes}

\* refresh_used_bytes() at wall time t.
RefreshUsedBytes(q, t, listing) ==
  IF t - q.last_refresh < CacheTtl /\ q.last_used_bytes > 0
  THEN [q |-> q, ret |-> q.last_used_bytes, listed |-> FALSE]
  ELSE [q |-> [q EXCEPT !.last_used_bytes = listing.total, !.last_refresh = t],
        ret |-> listing.total, listed |-> TRUE]

\* used_ratio() at wall time t: ratio = min(1.0, used / float(self._quota)).
UsedRatio(q, t, listing) ==
  IF q.quota = NoQuota
  THEN [q |-> q, ratio |-> Unknown, listed |-> FALSE]
  ELSE LET r == RefreshUsedBytes(q, t, listing)
       IN [q |-> r.q, ratio |-> Ratio(Min(r.ret, q.quota), q.quota),
           listed |-> r.listed]

\* One used_ratio() call, as the history keeps it.
Refreshed(q, u, listing) ==
  [listed |-> u.listed, ok |-> listing.ok, prior |-> q.last_used_bytes,
   stored |-> u.q.last_used_bytes, ratio |-> u.ratio]

NoRefresh ==
  [listed |-> FALSE, ok |-> TRUE, prior |-> 0, stored |-> 0, ratio |-> Unknown]

\* The handler replies with format_quota_pause(); the finalizer continues
\* with its next batch.
PauseNotice(caller) == caller = "handler"

InitQuota ==
  /\ quota = NewQuota(QuotaBytes)
  /\ wall = CacheTtl
  /\ bucketBytes = 0
  /\ gated = {}
  /\ refreshed = NoRefresh

\* Routing of an over-limit item, first half: new_job_id(), build the payload,
\* await publish_job(payload).  The message is on Q_jobs when the await returns.
RoutePublish(t) ==
  /\ bot[t].pc = "idle"
  /\ issued < MaxJobs
  /\ issued' = issued + 1
  /\ queue' = Append(queue, Payload(issued + 1))
  /\ bot' = [bot EXCEPT ![t] = [pc |-> "route_published", job |-> issued + 1]]
  /\ UNCHANGED <<handler, jobLog, jobs, notJobs>>

\* publish_job raises: the handler's except branch reports it, no row is written.
RoutePublishFails(t) ==
  /\ bot[t].pc = "idle"
  /\ issued < MaxJobs
  /\ issued' = issued + 1
  /\ UNCHANGED <<queue, bot, handler, jobLog, jobs, notJobs>>

\* Routing, second half: upsert_job(job_id, ..., "PENDING", 4, created_at, payload).
RoutePersist(t) ==
  /\ bot[t].pc = "route_published"
  /\ LET j   == bot[t].job
         js2 == UpsertJob(jobs, j, "PENDING", 4, Payload(j))
     IN /\ jobs' = js2
        /\ jobLog' = Append(jobLog, Logged(jobs, js2, j, "route"))
  /\ bot' = [bot EXCEPT ![t] = IdleBot]
  /\ UNCHANGED <<queue, handler, issued, notJobs>>

\* Every job that has a stored payload can be retried.
Retryable_AnyState(js, j) ==
  j \in DOMAIN js /\ js[j].payload_json # NoPayload

\* _cmd_retry's checks: the row exists, its state is FAILED or CANCELLED, and
\* a payload is stored.
Retryable(js, j) ==
  /\ j \in DOMAIN js
  /\ js[j].state \in {"FAILED", "CANCELLED"}
  /\ js[j].payload_json # NoPayload

\* /retry <job_id>, first half: get_job, the state and payload checks, then
\* await publish_job(payload).  Anything else replies and returns.
CmdRetry(j) ==
  /\ bot["handler"].pc = "idle"
  /\ Len(jobLog) < MaxLog
  /\ IF Retryable(jobs, j)
     THEN /\ queue' = Append(queue, jobs[j].payload_json)
          /\ bot' = [bot EXCEPT !["handler"] = [pc |-> "retry_published", job |-> j]]
     ELSE UNCHANGED <<queue, bot>>
  /\ UNCHANGED <<handler, issued, jobLog, jobs, notJobs>>

\* /retry, second half: update_job_state(job_id, "PENDING", None, now).
CmdRetryUpdate ==
  /\ bot["handler"].pc = "retry_published"
  /\ LET j   == bot["handler"].job
         js2 == UpdateJobState(jobs, j, "PENDING", "")
     IN /\ jobs' = js2
        /\ jobLog' = Append(jobLog, Logged(jobs, js2, j, "retry"))
  /\ bot' = [bot EXCEPT !["handler"] = IdleBot]
  /\ UNCHANGED <<queue, handler, issued, notJobs>>

\* /cancel <job_id>: update_job_state(job_id, "CANCELLED", None, now), whatever
\* the row's state is.
CmdCancel(j) ==
  /\ bot["handler"].pc = "idle"
  /\ Len(jobLog) < MaxLog
  /\ LET js2 == UpdateJobState(jobs, j, "CANCELLED", "")
     IN /\ jobs' = js2
        /\ jobLog' = Append(jobLog, Logged(jobs, js2, j, "cancel"))
  /\ UNCHANGED <<queue, bot, handler, issued, notJobs>>

\* Worker._on_message, to its first await: parse the delivered message and
\* update_job_state(job_id, "PROCESSING", None, now).
Deliver(h, pc) ==
  /\ handler[h].pc = "idle"
  /\ queue # <<>>
  /\ LET j   == Head(queue).job_id
         js2 == UpdateJobState(jobs, j, "PROCESSING", "")
     IN /\ jobs' = js2
        /\ jobLog' = Append(jobLog, Logged(jobs, js2, j, "worker"))
        /\ handler' = [handler EXCEPT ![h] = [pc |-> pc, job |-> j]]
  /\ queue' = Tail(queue)

\* The session check is part of the step that acquires the content.
WorkerDeliver(h) ==
  /\ Deliver(h, "acquire")
  /\ UNCHANGED <<bot, issued, notJobs>>

\* The except branch: update_job_state(job_id, "FAILED", str(e), now) and
\* JOBS_FAILED.inc(); the message is acknowledged and dropped.  w is the
\* worker object as the failing step leaves it.
FailJob(h, err, w) ==
  LET j   == handler[h].job
      js2 == UpdateJobState(jobs, j, "FAILED", err)
  IN /\ jobs' = js2
     /\ jobLog' = Append(jobLog, Logged(jobs, js2, j, "worker"))
     /\ handler' = [handler EXCEPT ![h] = IdleHandler]
     /\ worker' = [w EXCEPT !.jobs_failed = @ + 1]

WorkerFail(h, err) ==
  /\ FailJob(h, err, worker)
  /\ UNCHANGED <<queue, bot, issued, notWorker>>

\* Session check and download (or the simulated file) succeed.
WorkerAcquire(h) ==
  /\ handler[h].pc = "acquire"
  /\ handler' = [handler EXCEPT ![h].pc = "upload"]
  /\ UNCHANGED <<queue, bot, issued, jobLog, jobs, notJobs>>

\* Session recovery or the download raises.
WorkerAcquireFails(h) ==
  /\ handler[h].pc = "acquire"
  /\ WorkerFail(h, "download")

\* s3.upload_fileobj(key, ...) and os.remove(tmp_path).
WorkerUpload(h) ==
  /\ handler[h].pc = "upload"
  /\ handler' = [handler EXCEPT ![h].pc = "complete"]
  /\ UNCHANGED <<queue, bot, issued, jobLog, jobs, notJobs>>

WorkerUploadFails(h) ==
  /\ handler[h].pc = "upload"
  /\ WorkerFail(h, "upload")

\* update_job_state(job_id, "COMPLETED", None, now); JOBS_COMPLETED.inc().
WorkerComplete(h) ==
  /\ handler[h].pc = "complete"
  /\ LET j   == handler[h].job
         js2 == UpdateJobState(jobs, j, "COMPLETED", "")
     IN /\ jobs' = js2
        /\ jobLog' = Append(jobLog, Logged(jobs, js2, j, "worker_done"))
  /\ handler' = [handler EXCEPT ![h] = IdleHandler]
  /\ UNCHANGED <<queue, bot, issued, notJobs>>

\* The tasks that call the aggregator, and the Lock objects of its groups.
Adders == {"add1", "add2"}
NoTask == ""
NoLock == [mgid |-> NoGroup, gen |-> 0]

IdleAdder    == [pc |-> "idle", msg |-> [message_id |-> 0, media_group_id |-> NoGroup],
                 lock |-> NoLock, ret |-> Pending]
SleepingFlusher == [pc |-> "sleeping", t |-> 0, cands |-> <<>>, lock |-> NoLock,
                    ready |-> <<>>]

InitGuard ==
  /\ running = NoTask
  /\ adder = [a \in Adders |-> IdleAdder]
  /\ flusher = SleepingFlusher
  /\ lockOf = <<>>
  /\ lockGen = [g \in Groups |-> 0]
  /\ held = {}

----------------------------------------------------------------------------
(* Actions of the album aggregator                                         *)

notAlbum ==
  <<guardVars, storeVars, pipeVars, jobVars, dispVars, quotaVars, sessVars,
    gateVars, nameVars, loopVars>>

\* A message handler calls add_and_maybe_wait(m); message ids are handed out
\* in arrival order.
Add(m) ==
  /\ Cardinality(added) < MaxMsgs
  /\ m.message_id = Cardinality(added) + 1
  /\ LET r == AddAndMaybeWait(buckets, locks, now, m)
     IN /\ buckets' = r.buckets
        /\ locks' = r.locks
        /\ lastRet' = r.ret
        /\ released' = IF r.ret.kind = "batch" THEN Append(released, r.ret.items)
                       ELSE released
  /\ added' = added \cup {m}
  /\ UNCHANGED <<now, notAlbum>>

\* The finalizer loop calls pop_ready_albums().
Flush ==
  /\ LET r == PopReadyAlbums(buckets, locks, now)
     IN /\ buckets' = r.buckets
        /\ locks' = r.locks
        /\ released' = released \o r.ready
  /\ UNCHANGED <<now, added, lastRet, notAlbum>>

\* The monotonic clock advances.
Tick ==
  /\ now < MaxTime
  /\ now' = now + 1
  /\ UNCHANGED <<buckets, locks, added, released, lastRet, notAlbum>>

NextAlbum ==
  \/ \E m \in AlbumMsgs : Add(m)
  \/ Flush
  \/ Tick

InitAll ==
  /\ InitAlbum /\ InitGuard /\ InitStore /\ InitPipe /\ InitJobs /\ InitDispatch
  /\ InitQuota /\ InitSession

SpecAlbum == InitAll /\ [][NextAlbum]_vars

----------------------------------------------------------------------------
(* The aggregator's tasks step by step: the lock of a group is looked up,  *)
(* taken, the section runs, the lock is released.  The event loop runs one *)
(* task until it suspends; no step of add_and_maybe_wait or of             *)
(* pop_ready_albums suspends when the lock it takes is free.               *)

\* Any task may take a step at any moment.
MayStep_Preemptive(t) == TRUE

\* The event loop switches tasks only where the running task suspends.
MayStep(t) == running \in {NoTask, t}

\* self._locks.setdefault(mgid, asyncio.Lock())
SetDefault(lo, lg, g) ==
  IF g \in DOMAIN lo
  THEN [lockOf |-> lo, lockGen |-> lg]
  ELSE [lockOf  |-> [x \in (DOMAIN lo) \cup {g} |->
                       IF x = g THEN [mgid |-> g, gen |-> lg[g] + 1] ELSE lo[x]],
        lockGen |-> [lg EXCEPT ![g] = @ + 1]]

\* del self._locks[mgid] for the groups no longer in keep
Restrict(lo, keep) == [x \in (DOMAIN lo) \cap keep |-> lo[x]]

notGuard ==
  <<storeVars, pipeVars, jobVars, dispVars, quotaVars, sessVars,
    gateVars, nameVars, loopVars>>

\* A handler calls add_and_maybe_wait(m): a message without group id is
\* returned at once; otherwise the group's lock is looked up (line 46).
AdderStart(a, m) ==
  /\ MayStep(a)
  /\ adder[a].pc = "idle"
  /\ Cardinality(added) < MaxMsgs
  /\ m.message_id = Cardinality(added) + 1
  /\ added' = added \cup {m}
  /\ IF MediaGroupId(m) = NoGroup
     THEN /\ lastRet' = Batch(<<m>>)
          /\ released' = Append(released, <<m>>)
          /\ UNCHANGED <<running, adder, lockOf, lockGen, locks>>
     ELSE LET sd == SetDefault(lockOf, lockGen, MediaGroupId(m))
          IN /\ lockOf' = sd.lockOf
             /\ lockGen' = sd.lockGen
             /\ locks' = DOMAIN sd.lockOf
             /\ adder' = [adder EXCEPT ![a] = [pc |-> "acquire", msg |-> m,
                                               lock |-> sd.lockOf[MediaGroupId(m)],
                                               ret |-> Pending]]
             /\ running' = a
             /\ UNCHANGED <<lastRet, released>>
  /\ UNCHANGED <<now, buckets, flusher, held, notGuard>>

\* async with lock: the lock is taken once it is free (line 47).
AdderAcquire(a) ==
  /\ MayStep(a)
  /\ adder[a].pc = "acquire"
  /\ adder[a].lock \notin held
  /\ held' = held \cup {adder[a].lock}
  /\ adder' = [adder EXCEPT ![a].pc = "section"]
  /\ UNCHANGED <<running, flusher, lockOf, lockGen, albumVars, notGuard>>

\* The section of add_and_maybe_wait (lines 48-91).
AdderBody(a) ==
  /\ MayStep(a)
  /\ adder[a].pc = "section"
  /\ LET r == AddAndMaybeWait(buckets, DOMAIN lockOf, now, adder[a].msg)
     IN /\ buckets' = r.buckets
        /\ lockOf' = Restrict(lockOf, r.locks)
        /\ locks' = DOMAIN lockOf'
        /\ adder' = [adder EXCEPT ![a].pc = "exit", ![a].ret = r.ret]
  /\ UNCHANGED <<running, flusher, lockGen, held, now, added, released, lastRet,
                 notGuard>>

\* Leaving the async with block releases the lock; the call returns.
AdderExit(a) ==
  /\ MayStep(a)
  /\ adder[a].pc = "exit"
  /\ held' = held \ {adder[a].lock}
  /\ lastRet' = adder[a].ret
  /\ released' = IF adder[a].ret.kind = "batch"
                 THEN Append(released, adder[a].ret.items) ELSE released
  /\ adder' = [adder EXCEPT ![a] = IdleAdder]
  /\ running' = NoTask
  /\ UNCHANGED <<flusher, lockOf, lockGen, now, buckets, locks, added, notGuard>>

\* The finalizer's await asyncio.sleep(1) ends: one tick of the clock.
FlusherSleep ==
  /\ running = NoTask
  /\ flusher.pc = "sleeping"
  /\ now < MaxTime
  /\ now' = now + 1
  /\ flusher' = [flusher EXCEPT !.pc = "woken"]
  /\ UNCHANGED <<running, adder, lockOf, lockGen, held, buckets, locks, added,
                 released, lastRet, notGuard>>

\* pop_ready_albums reads the clock and collects its candidates (lines 102-109).
FlusherPop ==
  /\ MayStep("flusher")
  /\ flusher.pc = "woken"
  /\ LET cs == SelectSeq(buckets, LAMBDA b : IsReady(b, now))
     IN flusher' = [pc |-> "next", t |-> now,
                    cands |-> [k \in 1..Len(cs) |-> cs[k].mgid],
                    lock |-> NoLock, ready |-> <<>>]
  /\ running' = "flusher"
  /\ UNCHANGED <<adder, lockOf, lockGen, held, albumVars, notGuard>>

\* The next candidate: its lock is looked up; a held lock is skipped, a free
\* one is taken (lines 111-116).  After the last candidate the call returns.
FlusherNext ==
  /\ MayStep("flusher")
  /\ flusher.pc = "next"
  /\ IF flusher.cands = <<>>
     THEN /\ released' = released \o flusher.ready
          /\ flusher' = SleepingFlusher
          /\ running' = NoTask
          /\ UNCHANGED <<lockOf, lockGen, locks, held>>
     ELSE LET g  == Head(flusher.cands)
              sd == SetDefault(lockOf, lockGen, g)
          IN /\ lockOf' = sd.lockOf
             /\ lockGen' = sd.lockGen
             /\ locks' = DOMAIN sd.lockOf
             /\ IF sd.lockOf[g] \in held
                THEN /\ flusher' = [flusher EXCEPT !.cands = Tail(@)]
                     /\ held' = held
                ELSE /\ flusher' = [flusher EXCEPT !.pc = "section",
                                                   !.lock = sd.lockOf[g]]
                     /\ held' = held \cup {sd.lockOf[g]}
             /\ UNCHANGED <<running, released>>
  /\ UNCHANGED <<adder, now, buckets, added, lastRet, notGuard>>

\* The section of pop_ready_albums for one candidate (lines 117-133).
FlusherBody ==
  /\ MayStep("flusher")
  /\ flusher.pc = "section"
  /\ LET g == Head(flusher.cands)
         i == BucketIdx(buckets, g)
     IN IF i = 0 \/ ~IsReady(buckets[i], flusher.t)
        THEN /\ flusher' = [flusher EXCEPT !.pc = "exit"]
             /\ UNCHANGED <<buckets, lockOf, locks>>
        ELSE /\ buckets' = RemoveAt(buckets, i)
             /\ lockOf' = Restrict(lockOf, (DOMAIN lockOf) \ {g})
             /\ locks' = DOMAIN lockOf'
             /\ flusher' = [flusher EXCEPT !.pc = "exit",
                                           !.ready = Append(@, buckets[i].items)]
  /\ UNCHANGED <<running, adder, lockGen, held, now, added, released, lastRet,
                 notGuard>>

\* Leaving the async with block releases the lock; the loop goes on.
FlusherExit ==
  /\ MayStep("flusher")
  /\ flusher.pc = "exit"
  /\ held' = held \ {flusher.lock}
  /\ flusher' = [flusher EXCEPT !.pc = "next", !.cands = Tail(@), !.lock = NoLock]
  /\ UNCHANGED <<running, adder, lockOf, lockGen, albumVars, notGuard>>

AdderRuns == \E a \in Adders : AdderAcquire(a) \/ AdderBody(a) \/ AdderExit(a)

FlusherRuns == FlusherPop \/ FlusherNext \/ FlusherBody \/ FlusherExit

NextGuard ==
  \/ \E a \in Adders, m \in AlbumMsgs : AdderStart(a, m)
  \/ \E a \in Adders : AdderAcquire(a)
  \/ \E a \in Adders : AdderBody(a)
  \/ \E a \in Adders : AdderExit(a)
  \/ FlusherSleep
  \/ FlusherPop
  \/ FlusherNext
  \/ FlusherBody
  \/ FlusherExit

SpecGuard == InitAll /\ [][NextGuard]_vars

\* The event loop runs every task that can run, and the sleep ends.
SpecFlusher ==
  /\ InitAll
  /\ [][NextGuard]_vars
  /\ WF_vars(FlusherSleep)
  /\ WF_vars(FlusherRuns)
  /\ WF_vars(AdderRuns)

----------------------------------------------------------------------------
(* Actions of the store                                                    *)

notStore ==
  <<albumVars, guardVars, pipeVars, jobVars, dispVars, quotaVars, sessVars,
    gateVars, nameVars, loopVars>>

StoreKeys == {BuildKey(b, 1) : b \in 1..2}

StoreRecord(sha, key, uid) ==
  /\ LET st == Record(files, tg_map, sha, key, SizeOf(sha), uid)
     IN files' = st.files /\ tg_map' = st.tg_map
  /\ UNCHANGED <<jobs, notStore>>

StoreUpsertJob(j) ==
  /\ jobs' = UpsertJob(jobs, j, "PENDING", 4, Payload(j))
  /\ UNCHANGED <<files, tg_map, notStore>>

StorePurgeAll ==
  /\ LET st == PurgeAll(files, tg_map, jobs)
     IN files' = st.files /\ tg_map' = st.tg_map /\ jobs' = st.jobs
  /\ UNCHANGED notStore

StoreVacuum ==
  /\ LET st == Vacuum(files, tg_map, jobs)
     IN files' = st.files /\ tg_map' = st.tg_map /\ jobs' = st.jobs
  /\ UNCHANGED notStore

NextStore ==
  \/ \E sha \in Hashes, key \in StoreKeys, uid \in Uids \cup {NoUid} :
       StoreRecord(sha, key, uid)
  \/ \E j \in JobIds : StoreUpsertJob(j)
  \/ StorePurgeAll
  \/ StoreVacuum

SpecStore == InitAll /\ [][NextStore]_vars

----------------------------------------------------------------------------
(* Actions of process_batch                                                *)

notPipe ==
  <<albumVars, guardVars, jobs, jobVars, dispVars, quotaVars, sessVars,
    gateVars, nameVars, loopVars>>

\* Task t's step leaves the shared state as P has it.
Apply(P, t) ==
  /\ task' = [task EXCEPT ![t] = P.task]
  /\ files' = P.files
  /\ tg_map' = P.tg_map
  /\ s3objects' = P.s3objects
  /\ manifests' = P.manifests
  /\ putlog' = P.putlog
  /\ finished' = P.finished
  /\ examined' = P.examined
  /\ downloads' = P.downloads

\* The handler or the finalizer calls process_batch(messages): it runs to its
\* first await, or to its return when no item needs a download.
StartBatch(t) ==
  /\ task[t].pc = "idle"
  /\ \E msgs \in BatchesOf(Pool \ used), manOk \in BOOLEAN :
       /\ Cardinality(used) + Len(msgs) <= MaxIngested
       /\ Apply(ProcessItems([PipeState(t) EXCEPT !.task = NewTask(t, msgs)], manOk), t)
       /\ used' = used \cup SeqRange(msgs)
  /\ UNCHANGED notPipe

\* await bot.get_file(file_id) returns.
GetFile(t) ==
  /\ task[t].pc = "get_file"
  /\ task' = [task EXCEPT ![t].pc = "download"]
  /\ UNCHANGED <<files, tg_map, s3objects, manifests, putlog, used, finished,
                 examined, downloads, notPipe>>

\* await bot.get_file(file_id) raises.
GetFileFails(t) ==
  /\ task[t].pc = "get_file"
  /\ Apply(Raise(PipeState(t), "get_file"), t)
  /\ UNCHANGED <<used, notPipe>>

\* await _download_to_temp(tfile) returns: size gate, sha256 dedup, upload,
\* record, and on through the loop to the next await or the return.
Download(t) ==
  /\ task[t].pc = "download"
  /\ \E upOk, manOk \in BOOLEAN : Apply(AfterDownload(PipeState(t), upOk, manOk), t)
  /\ UNCHANGED <<used, notPipe>>

\* await _download_to_temp(tfile) raises.
DownloadFails(t) ==
  /\ task[t].pc = "download"
  /\ Apply(Raise(PipeState(t), "download"), t)
  /\ UNCHANGED <<used, notPipe>>

NextPipeline ==
  \/ \E t \in Tasks : StartBatch(t)
  \/ \E t \in Tasks : GetFile(t)
  \/ \E t \in Tasks : GetFileFails(t)
  \/ \E t \in Tasks : Download(t)
  \/ \E t \in Tasks : DownloadFails(t)

\* The store as an earlier run can have left it: empty, or with the source
\* map entry that purge_all keeps.
InitPipeStore ==
  /\ files = <<>>
  /\ jobs = <<>>
  /\ tg_map \in {<<>>, [u \in {"u1"} |-> "h1"]}

InitPipeline ==
  /\ InitAlbum /\ InitGuard /\ InitPipeStore /\ InitPipe /\ InitJobs /\ InitDispatch
  /\ InitQuota /\ InitSession

SpecPipeline == InitPipeline /\ [][NextPipeline]_vars

----------------------------------------------------------------------------
(* The job life cycle                                                      *)

NextJobs ==
  \/ \E t \in Tasks : RoutePublish(t)
  \/ \E t \in Tasks : RoutePublishFails(t)
  \/ \E t \in Tasks : RoutePersist(t)
  \/ \E j \in JobIds : CmdRetry(j)
  \/ CmdRetryUpdate
  \/ \E j \in JobIds : CmdCancel(j)
  \/ \E h \in Handlers : WorkerDeliver(h)
  \/ \E h \in Handlers : WorkerAcquire(h)
  \/ \E h \in Handlers : WorkerAcquireFails(h)
  \/ \E h \in Handlers : WorkerUpload(h)
  \/ \E h \in Handlers : WorkerUploadFails(h)
  \/ \E h \in Handlers : WorkerComplete(h)

SpecJobs == InitAll /\ [][NextJobs]_vars

\* The life cycle of the jobs one handler call routes, with /retry on any job
\* id and /cancel on the ids handed out.
RetryJobs == 1     \* jobs routed before the commands are tried

NextRetry ==
  \/ issued < RetryJobs /\ RoutePublish("handler")
  \/ RoutePersist("handler")
  \/ \E j \in JobIds : CmdRetry(j)
  \/ CmdRetryUpdate
  \/ \E j \in 1..issued : CmdCancel(j)
  \/ \E h \in Handlers : WorkerDeliver(h)
  \/ \E h \in Handlers : WorkerAcquire(h)
  \/ \E h \in Handlers : WorkerAcquireFails(h)
  \/ \E h \in Handlers : WorkerUpload(h)
  \/ \E h \in Handlers : WorkerUploadFails(h)
  \/ \E h \in Handlers : WorkerComplete(h)

SpecRetry == InitAll /\ [][NextRetry]_vars

----------------------------------------------------------------------------
(* Actions of the handler's routing loop                                   *)

\* What the routing loop leaves alone while it decides.
notDispatch ==
  <<albumVars, guardVars, storeVars, pipeVars, queue, bot, handler, jobLog, quotaVars,
    sessVars,
    gateVars, nameVars, loopVars>>

RoutedIds == {r.id : r \in routed}

\* _on_message reaches the loop with the items of one message or album.
DispatchStart ==
  /\ router.pc = "idle"
  /\ task["handler"].pc = "idle"
  /\ \E items \in BatchesOf({m \in DispatchPool : m.id \notin RoutedIds}) :
       /\ Cardinality(routed) + Len(items) <= MaxIngested
       /\ LET D == RouteItems([IdleRouter EXCEPT !.items = items, !.i = 1], routed)
          IN /\ router' = D.router
             /\ routed' = D.routed
  /\ UNCHANGED <<issued, notDispatch>>

\* await _check_file_size(m, finfo) returns: the item is put on to_process and
\* the loop goes on, or new_job_id() is called and the payload built.
DispatchProbe(answer) ==
  /\ router.pc = "probe"
  /\ LET m     == router.items[router.i]
         probe == CheckFileSize(m, answer)
     IN IF RouteToMtproto(probe.is_too_big, SizeHint(m, probe))
        THEN /\ issued < MaxJobs
             /\ issued' = issued + 1
             /\ router' = [router EXCEPT !.pc = "publish", !.job = issued + 1,
                                         !.is_too_big = probe.is_too_big]
             /\ UNCHANGED routed
        ELSE LET D == RouteItems(
                        [router EXCEPT !.to_process = Append(@, m), !.i = @ + 1],
                        routed \cup {Routed(router.items[1].id, m,
                                            probe.is_too_big, "pipeline", 0)})
             IN /\ router' = D.router
                /\ routed' = D.routed
                /\ UNCHANGED issued
  /\ UNCHANGED notDispatch

\* await publish_job(payload) returns: the message is on Q_jobs.
DispatchPublish ==
  /\ router.pc = "publish"
  /\ queue' = Append(queue, Payload(router.job))
  /\ router' = [router EXCEPT !.pc = "persist"]
  /\ UNCHANGED <<routed, issued, jobLog, bot, handler, albumVars, guardVars,
                 storeVars, pipeVars, quotaVars, sessVars,
    gateVars, nameVars, loopVars>>

\* await publish_job(payload) raises: the handler's except branch reports the
\* error; no row is written and nothing of to_process is processed.
DispatchPublishFails ==
  /\ router.pc = "publish"
  /\ LET call == router.items[1].id
         m    == router.items[router.i]
     IN routed' = routed
          \cup {Routed(call, m, router.is_too_big, "publish_failed", router.job)}
          \cup {Routed(call, router.items[k], FALSE, "aborted", 0) :
                  k \in (router.i + 1)..Len(router.items)}
  /\ router' = IdleRouter
  /\ UNCHANGED <<issued, notDispatch>>

\* upsert_job(job_id, ..., "PENDING", 4, created_at, payload), then the loop
\* goes on to its next await.
DispatchPersist ==
  /\ router.pc = "persist"
  /\ LET j   == router.job
         m   == router.items[router.i]
         js2 == UpsertJob(jobs, j, "PENDING", 4, Payload(j))
         D   == RouteItems(
                  [router EXCEPT !.i = @ + 1, !.job = 0, !.is_too_big = FALSE],
                  routed \cup {Routed(router.items[1].id, m, router.is_too_big,
                                      "job", j)})
     IN /\ jobs' = js2
        /\ jobLog' = Append(jobLog, Logged(jobs, js2, j, "route"))
        /\ router' = D.router
        /\ routed' = D.routed
  /\ UNCHANGED <<issued, queue, bot, handler, albumVars, guardVars, files,
                 tg_map, pipeVars, quotaVars, sessVars,
    gateVars, nameVars, loopVars>>

\* After the loop: if to_process, process_batch(..., to_process) runs to its
\* first await or to its return.
DispatchHandOff ==
  /\ router.pc = "handoff"
  /\ router' = IdleRouter
  /\ IF router.to_process = <<>>
     THEN UNCHANGED <<files, tg_map, pipeVars>>
     ELSE /\ \E manOk \in BOOLEAN :
               Apply(ProcessItems([PipeState(router.caller) EXCEPT
                                     !.task = NewTask(router.caller, router.to_process)],
                                  manOk), router.caller)
          /\ used' = used \cup SeqRange(router.to_process)
  /\ UNCHANGED <<routed, albumVars, guardVars, jobs, jobVars, quotaVars, sessVars,
    gateVars, nameVars, loopVars>>

NextDispatch ==
  \/ DispatchStart
  \/ \E answer \in ProbeAnswers : DispatchProbe(answer)
  \/ DispatchPublish
  \/ DispatchPublishFails
  \/ DispatchPersist
  \/ DispatchHandOff
  \/ GetFile("handler")
  \/ GetFileFails("handler")
  \/ Download("handler")
  \/ DownloadFails("handler")

SpecDispatch == InitAll /\ [][NextDispatch]_vars

----------------------------------------------------------------------------
(* Actions of the quota tracker and the quota pause                        *)

notQuota ==
  <<albumVars, guardVars, storeVars, pipeVars, jobVars, sessVars,
    gateVars, nameVars, loopVars>>

GatedIds == UNION {g.ids : g \in gated}

\* The batches brought to the quota check are formed from a small file, an
\* item without a file and a file declared over the limit.
GatePool == {m \in DispatchPool : m.id \in {1, 6, 7}}

\* No routing loop and no process_batch is under way.  The steps of the clock,
\* of the bucket and of /quota are taken in such states only: the routing loop
\* and process_batch read none of what they change.
Quiet == router.pc = "idle" /\ \A t \in Tasks : task[t].pc = "idle"

\* time.time() advances.
QuotaTick ==
  /\ Quiet
  /\ wall < CacheTtl + MaxWall
  /\ wall' = wall + 1
  /\ UNCHANGED <<quota, bucketBytes, gated, refreshed, dispVars, notQuota>>

\* Objects are written to or removed from the bucket.
BucketChanges(n) ==
  /\ Quiet
  /\ n # bucketBytes
  /\ bucketBytes' = n
  /\ UNCHANGED <<quota, wall, gated, refreshed, dispVars, notQuota>>

\* /quota or /status: used_ratio().
QuotaQuery(listing) ==
  /\ Quiet
  /\ LET u == UsedRatio(quota, wall, listing)
     IN /\ quota' = u.q
        /\ refreshed' = Refreshed(quota, u, listing)
  /\ UNCHANGED <<wall, bucketBytes, gated, dispVars, notQuota>>

\* A ready batch reaches the quota check of its caller: the handler with the
\* batch add_and_maybe_wait returned, the finalizer with one of
\* pop_ready_albums.  At ratio >= 1.0 the caller leaves the batch; otherwise
\* it enters the routing loop.
QuotaGate(caller, listing) ==
  /\ router.pc = "idle"
  /\ task[caller].pc = "idle"
  /\ Cardinality(gated) < MaxGated
  /\ \E items \in BatchesOf({m \in GatePool : m.id \notin RoutedIds \cup GatedIds}) :
       LET configured == quota.quota # NoQuota
           u      == UsedRatio(quota, wall, listing)
           paused == configured /\ AtLeastOne(u.ratio)
           entry  == [caller |-> caller, call |-> items[1].id,
                      ids |-> {items[k].id : k \in 1..Len(items)},
                      configured |-> configured,
                      ratio |-> IF configured THEN u.ratio ELSE Unknown,
                      outcome |-> IF paused THEN "paused" ELSE "admitted",
                      notice |-> paused /\ PauseNotice(caller)]
           D == RouteItems([IdleRouter EXCEPT !.items = items, !.i = 1,
                                              !.caller = caller], routed)
       IN /\ Cardinality(routed) + Len(items) <= MaxIngested
          /\ IF configured
             THEN /\ quota' = u.q
                  /\ refreshed' = Refreshed(quota, u, listing)
             ELSE UNCHANGED <<quota, refreshed>>
          /\ gated' = gated \cup {entry}
          /\ IF paused
             THEN UNCHANGED dispVars
             ELSE /\ router' = D.router
                  /\ routed' = D.routed
  /\ UNCHANGED <<wall, bucketBytes, notQuota>>

\* The tracker on its own, asked by /quota and /status.
NextTracker ==
  \/ QuotaTick
  \/ \E n \in 0..MaxBucketBytes : BucketChanges(n)
  \/ \E listing \in Listings(bucketBytes) : QuotaQuery(listing)

NextQuota ==
  \/ QuotaTick
  \/ \E n \in 0..MaxBucketBytes : BucketChanges(n)
  \/ \E caller \in Tasks, listing \in Listings(bucketBytes) : QuotaGate(caller, listing)
  \/ \E answer \in ProbeAnswers : DispatchProbe(answer)
  \/ DispatchPublish
  \/ DispatchPublishFails
  \/ DispatchPersist
  \/ DispatchHandOff
  \/ \E t \in Tasks : GetFile(t)
  \/ \E t \in Tasks : GetFileFails(t)
  \/ \E t \in Tasks : Download(t)
  \/ \E t \in Tasks : DownloadFails(t)

\* The quota is configured or not.
InitQuotaAny ==
  /\ InitAlbum /\ InitGuard /\ InitStore /\ InitPipe /\ InitJobs /\ InitDispatch
  /\ InitSession
  /\ quota \in {NewQuota(NoQuota), NewQuota(QuotaBytes)}
  /\ wall = CacheTtl
  /\ bucketBytes = 0
  /\ gated = {}
  /\ refreshed = NoRefresh

SpecTracker == InitQuotaAny /\ [][NextTracker]_vars

SpecQuota == InitQuotaAny /\ [][NextQuota]_vars

----------------------------------------------------------------------------
(* The worker's session check and recovery, step by step.  The tasks of    *)
(* the worker (one per message in flight, and the health monitor) switch   *)
(* at their awaits: get_me, the notifications, connect, the sleep of       *)
(* _wait_code, sign_in.                                                    *)

SessionJobs == 1       \* jobs stored and queued when the worker starts

notSession ==
  <<albumVars, guardVars, files, tg_map, pipeVars, dispVars, quota, bucketBytes, gated,
    refreshed, gateVars, nameVars, loopVars>>

\* The bot has routed SessionJobs items: their rows are stored, their
\* messages wait on the queue.
RECURSIVE StoredJobs(_)
StoredJobs(n) ==
  IF n = 0 THEN <<>>
  ELSE UpsertJob(StoredJobs(n - 1), n, "PENDING", 4, Payload(n))

InitSessionJobs ==
  /\ InitAlbum /\ InitGuard /\ InitPipe /\ InitDispatch /\ InitQuota /\ InitSession
  /\ files = <<>>
  /\ tg_map = <<>>
  /\ jobs = StoredJobs(SessionJobs)
  /\ queue = [j \in 1..SessionJobs |-> Payload(j)]
  /\ bot = [t \in Tasks |-> IdleBot]
  /\ handler = [h \in Handlers |-> IdleHandler]
  /\ issued = SessionJobs
  /\ jobLog = <<>>

\* _on_message up to the session check: PROCESSING is written; in simulate
\* mode the check is skipped.
SessionDeliver(h) ==
  /\ Deliver(h, IF worker.simulate_download THEN "acquire" ELSE "check")
  /\ auth' = [auth EXCEPT ![h] =
                [IdleAuth EXCEPT !.pc = IF worker.simulate_download THEN "idle"
                                        ELSE "probe",
                                 !.simulated = worker.simulate_download]]
  /\ UNCHANGED <<bot, issued, worker, secrets, authLog, wall, notSession>>

\* _monitor_session_health wakes from its sleep.
MonitorWakes ==
  /\ auth[Monitor].pc = "idle"
  /\ ~worker.simulate_download
  /\ auth' = [auth EXCEPT ![Monitor] = [IdleAuth EXCEPT !.pc = "probe"]]
  /\ UNCHANGED <<jobs, jobVars, worker, secrets, authLog, wall, notSession>>

\* The first _check_session_health of a task; an unhealthy answer enters
\* _handle_session_expiry.
SessionProbe(a, ans) ==
  /\ auth[a].pc = "probe"
  /\ ans # "me" => authLog.attempts < MaxLogins
  /\ worker' = CheckSessionHealth(worker, ans)
  /\ IF ans = "me"
     THEN /\ auth' = [auth EXCEPT ![a].pc = "idle",
                                  ![a].probes = Append(@, TRUE)]
          /\ handler' = IF a = Monitor THEN handler
                        ELSE [handler EXCEPT ![a].pc = "acquire"]
          /\ authLog' = authLog
     ELSE /\ auth' = [auth EXCEPT ![a].pc = "expiry",
                                  ![a].probes = Append(@, FALSE),
                                  ![a].attempt = authLog.attempts + 1]
          /\ handler' = handler
          /\ authLog' = [authLog EXCEPT !.attempts = @ + 1]
  /\ UNCHANGED <<jobs, queue, bot, issued, jobLog, secrets, wall, notSession>>

\* How _handle_session_expiry ends: after a login that succeeded, or in the
\* except branch after one that raised (simulate mode, with its critical
\* notice, once the count has reached the maximum).
ExpiryEnds(a, ok, prompted) ==
  /\ worker' = IF ok THEN worker ELSE ExpiryFailed(worker)
  /\ auth' = [auth EXCEPT ![a].pc = IF a = Monitor THEN "idle" ELSE "probe2",
                          ![a].recoveries = @ + 1,
                          ![a].attempt = 0,
                          ![a].prompted = prompted]
  /\ authLog' =
       IF ok
       THEN [authLog EXCEPT !.streak = 0]
       ELSE LET sim == ExpiryFailed(worker).simulate_download
            IN [authLog EXCEPT
                  !.streak = @ + 1,
                  !.simulate_at = IF sim /\ ~worker.simulate_download
                                  THEN @ \cup {authLog.streak + 1} ELSE @]

\* What MTProtoClient.start meets: the session is still authorized, or
\* connect or send_code_request raises, or the login code is asked for.
LoginOutcomes == {"authorized", "raises", "needs_code"}

\* _notify_admin_auth_needed, then _reauthenticate_mtproto up to the login.
SessionExpiry(a, outcome) ==
  /\ auth[a].pc = "expiry"
  /\ IF outcome = "needs_code"
     THEN /\ auth' = [auth EXCEPT ![a].pc = "wait_code", ![a].prompted = TRUE]
          /\ UNCHANGED <<worker, authLog>>
     ELSE ExpiryEnds(a, outcome = "authorized", TRUE)
  /\ UNCHANGED <<jobs, jobVars, secrets, wall, notSession>>

\* _wait_code finds a fresh code: it is read and deleted, and sign_in is
\* called with it.  While there is none the task sleeps and looks again.
\* No task of the worker runs between the SELECT and the DELETE; the bot is
\* another process, and with raced its /mtcode replaces the row in between.
SessionWaitCode(a, raced) ==
  /\ auth[a].pc = "wait_code"
  /\ raced => authLog.codes < MaxCodes
  /\ LET got    == GetSecretSince(secrets, wall - FreshWindow)
         stored == IF raced THEN SetSecret(secrets, authLog.codes + 1, wall)
                   ELSE secrets
     IN /\ got # NoSecret
        /\ secrets' = DeleteSecret(stored)
        /\ authLog' = [authLog EXCEPT
                         !.codes = IF raced THEN @ + 1 ELSE @,
                         !.consumed =
                           @ \cup {[attempt |-> auth[a].attempt, id |-> got.id,
                                    age |-> wall - got.created_at]}]
  /\ auth' = [auth EXCEPT ![a].pc = "sign_in"]
  /\ UNCHANGED <<jobs, jobVars, worker, wall, notSession>>

\* sign_in (and the password, if asked) succeeds or raises.
SessionSignIn(a, ok) ==
  /\ auth[a].pc = "sign_in"
  /\ ExpiryEnds(a, ok, auth[a].prompted)
  /\ UNCHANGED <<jobs, jobVars, secrets, wall, notSession>>

\* The probe after the recovery attempt; unhealthy again, the handler raises
\* RuntimeError("Failed to recover MTProto session").
SessionProbeAgain(h, ans) ==
  /\ auth[h].pc = "probe2"
  /\ auth' = [auth EXCEPT ![h].pc = "idle", ![h].probes = Append(@, ans = "me")]
  /\ IF AfterSecondProbe(ans = "me") = "download"
     THEN /\ worker' = CheckSessionHealth(worker, ans)
          /\ handler' = [handler EXCEPT ![h].pc = "acquire"]
          /\ UNCHANGED <<jobs, jobLog>>
     ELSE FailJob(h, "Failed to recover MTProto session",
                  CheckSessionHealth(worker, ans))
  /\ UNCHANGED <<queue, bot, issued, secrets, authLog, wall, notSession>>

\* /mtcode <code>: set_secret("mt_code", code, now).
SubmitCode ==
  /\ authLog.codes < MaxCodes
  /\ secrets' = SetSecret(secrets, authLog.codes + 1, wall)
  /\ authLog' = [authLog EXCEPT !.codes = @ + 1]
  /\ UNCHANGED <<jobs, jobVars, worker, auth, wall, notSession>>

NextSession ==
  \/ \E h \in Handlers : SessionDeliver(h)
  \/ MonitorWakes
  \/ \E a \in AuthTasks, ans \in HealthAnswers : SessionProbe(a, ans)
  \/ \E a \in AuthTasks, o \in LoginOutcomes : SessionExpiry(a, o)
  \/ \E a \in AuthTasks, raced \in BOOLEAN : SessionWaitCode(a, raced)
  \/ \E a \in AuthTasks, ok \in BOOLEAN : SessionSignIn(a, ok)
  \/ \E h \in Handlers, ans \in HealthAnswers : SessionProbeAgain(h, ans)
  \/ SubmitCode
  \/ QuotaTick
  \/ \E h \in Handlers : WorkerAcquire(h)
  \/ \E h \in Handlers : WorkerAcquireFails(h)
  \/ \E h \in Handlers : WorkerUpload(h)
  \/ \E h \in Handlers : WorkerUploadFails(h)
  \/ \E h \in Handlers : WorkerComplete(h)

SpecSession == InitSessionJobs /\ [][NextSession]_vars

\* The check and the recovery inside the handling of a job alone: no health
\* monitor, and no code grows stale.
NextProbe ==
  \/ \E h \in Handlers : SessionDeliver(h)
  \/ \E h \in Handlers, ans \in HealthAnswers : SessionProbe(h, ans)
  \/ \E h \in Handlers, o \in LoginOutcomes : SessionExpiry(h, o)
  \/ \E h \in Handlers, raced \in BOOLEAN : SessionWaitCode(h, raced)
  \/ \E h \in Handlers, ok \in BOOLEAN : SessionSignIn(h, ok)
  \/ \E h \in Handlers, ans \in HealthAnswers : SessionProbeAgain(h, ans)
  \/ SubmitCode
  \/ \E h \in Handlers : WorkerAcquire(h)
  \/ \E h \in Handlers : WorkerAcquireFails(h)
  \/ \E h \in Handlers : WorkerUpload(h)
  \/ \E h \in Handlers : WorkerUploadFails(h)
  \/ \E h \in Handlers : WorkerComplete(h)

SpecProbe == InitSessionJobs /\ [][NextProbe]_vars

\* Every step handler h can take.
HandlerStep(h) ==
  \/ SessionDeliver(h)
  \/ \E ans \in HealthAnswers : SessionProbe(h, ans)
  \/ \E o \in LoginOutcomes : SessionExpiry(h, o)
  \/ \E raced \in BOOLEAN : SessionWaitCode(h, raced)
  \/ \E ok \in BOOLEAN : SessionSignIn(h, ok)
  \/ \E ans \in HealthAnswers : SessionProbeAgain(h, ans)
  \/ WorkerAcquire(h) \/ WorkerAcquireFails(h)
  \/ WorkerUpload(h) \/ WorkerUploadFails(h)
  \/ WorkerComplete(h)

\* The event loop runs every task that can go on; nothing makes an
\* administrator send /mtcode.
FairSession ==
  /\ SpecSession
  /\ \A h \in Handlers : WF_vars(HandlerStep(h))

\* The login codes alone: every task of the worker that can wait for a
\* code, the bot's /mtcode, the clock.  No step after the login reads or
\* writes the table of codes, so a job stops before its second probe; the
\* count of failed probes and the failures of connect do not touch the
\* table either, so get_me does not raise here and every login asks for
\* the code.
NextCodes ==
  \/ \E h \in Handlers : SessionDeliver(h)
  \/ MonitorWakes
  \/ \E a \in AuthTasks, ans \in {"me", "none"} : SessionProbe(a, ans)
  \/ \E a \in AuthTasks : SessionExpiry(a, "needs_code")
  \/ \E a \in AuthTasks, raced \in BOOLEAN : SessionWaitCode(a, raced)
  \/ \E a \in AuthTasks, ok \in BOOLEAN : SessionSignIn(a, ok)
  \/ SubmitCode
  \/ QuotaTick

SpecCodes == InitSessionJobs /\ [][NextCodes]_vars

----------------------------------------------------------------------------
(* The temporary file of a job: _on_message from mkstemp to the end.       *)

\* The except branch of the download removes the file before it raises.
RemoveTmp(w, h) == [w EXCEPT !.tmp[h] = FALSE]

\* The handler returns: a file it did not remove stays on the disk.
LeaveTmp(w, h) ==
  [w EXCEPT !.tmp[h] = FALSE, !.tmp_left = IF w.tmp[h] THEN @ + 1 ELSE @]

\* PROCESSING is written, the session is healthy.
TempDeliver(h) ==
  /\ Deliver(h, "mkstemp")
  /\ UNCHANGED <<bot, issued, notJobs>>

\* tmp_fd, tmp_path = tempfile.mkstemp(prefix="mtw_")
TempCreate(h) ==
  /\ handler[h].pc = "mkstemp"
  /\ handler' = [handler EXCEPT ![h].pc = "download"]
  /\ worker' = [worker EXCEPT !.tmp[h] = TRUE]
  /\ UNCHANGED <<jobs, queue, bot, issued, jobLog, notWorker>>

\* download_file_by_message and the checks of the size that follow it.
DownloadOutcomes == {"ok", "raises", "size_mismatch", "empty"}

TempDownload(h, outcome) ==
  /\ handler[h].pc = "download"
  /\ IF outcome = "ok"
     THEN /\ handler' = [handler EXCEPT ![h].pc = "store"]
          /\ UNCHANGED <<jobs, jobLog, worker>>
     ELSE FailJob(h, "download", LeaveTmp(RemoveTmp(worker, h), h))
  /\ UNCHANGED <<queue, bot, issued, notWorker>>

\* s3.upload_fileobj(...), then os.remove(tmp_path); an upload that raises
\* goes straight to the except branch at the end of the handler.
TempUpload(h, ok) ==
  /\ handler[h].pc = "store"
  /\ IF ok
     THEN /\ handler' = [handler EXCEPT ![h].pc = "complete"]
          /\ worker' = RemoveTmp(worker, h)
          /\ UNCHANGED <<jobs, jobLog>>
     ELSE FailJob(h, "upload", LeaveTmp(worker, h))
  /\ UNCHANGED <<queue, bot, issued, notWorker>>

NextTemp ==
  \/ issued < RetryJobs /\ RoutePublish("handler")
  \/ RoutePersist("handler")
  \/ \E j \in JobIds : CmdRetry(j)
  \/ CmdRetryUpdate
  \/ \E h \in Handlers : TempDeliver(h)
  \/ \E h \in Handlers : TempCreate(h)
  \/ \E h \in Handlers, o \in DownloadOutcomes : TempDownload(h, o)
  \/ \E h \in Handlers, ok \in BOOLEAN : TempUpload(h, ok)
  \/ \E h \in Handlers : WorkerComplete(h)

SpecTemp == InitAll /\ [][NextTemp]_vars

----------------------------------------------------------------------------
(* upsert_job with every column of the jobs table.                         *)

UpsertCalls == 2       \* calls of upsert_job

\* The job ids the calls name, and the user, chat and message.
UpsertIds == {1, 2}
Origins == {[user_id |-> 1, chat_id |-> 1, message_id |-> 1],
            [user_id |-> 2, chat_id |-> 2, message_id |-> 2]}
UpsertStates     == {"PENDING", "FAILED"}
UpsertPriorities == {4, 9}
UpsertPayloads   == {NoPayload, Payload(1), Payload(2)}

\* INSERT OR REPLACE: the row is written anew from the call.
UpsertJobRow_Replace(js, j, o, state, priority, now_iso, payload) ==
  Put(js, j, [user_id |-> o.user_id, chat_id |-> o.chat_id,
              message_id |-> o.message_id, state |-> state, priority |-> priority,
              created_at |-> now_iso, updated_at |-> now_iso, last_error |-> "",
              payload_json |-> payload])

\* INSERT ... ON CONFLICT(job_id) DO UPDATE SET state, priority, updated_at,
\* payload_json = COALESCE(excluded.payload_json, jobs.payload_json)
UpsertJobRow(js, j, o, state, priority, now_iso, payload) ==
  IF j \in DOMAIN js
  THEN [js EXCEPT ![j].state = state,
                  ![j].priority = priority,
                  ![j].updated_at = now_iso,
                  ![j].payload_json = IF payload = NoPayload THEN @ ELSE payload]
  ELSE Put(js, j, [user_id |-> o.user_id, chat_id |-> o.chat_id,
                   message_id |-> o.message_id, state |-> state,
                   priority |-> priority, created_at |-> now_iso,
                   updated_at |-> now_iso, last_error |-> "",
                   payload_json |-> payload])

\* The time of the last call, in seconds.
LastNow == IF jobLog = <<>> THEN 0 ELSE jobLog[Len(jobLog)].now_iso

\* One call of upsert_job, in the same second as the last one or in the
\* next; the log keeps the call and the row before and after it.
UpsertCall(j, o, state, priority, payload, now_iso) ==
  /\ Len(jobLog) < UpsertCalls
  /\ now_iso \in {LastNow, LastNow + 1}
  /\ LET js2 == UpsertJobRow(jobs, j, o, state, priority, now_iso, payload)
     IN /\ jobs' = js2
        /\ jobLog' = Append(jobLog,
             [job |-> j, origin |-> o, state |-> state, priority |-> priority,
              now_iso |-> now_iso, payload |-> payload,
              existed |-> j \in DOMAIN jobs,
              before |-> IF j \in DOMAIN jobs THEN jobs[j] ELSE js2[j],
              after |-> js2[j]])
  /\ UNCHANGED <<files, tg_map, queue, bot, handler, issued, albumVars, guardVars,
                 pipeVars, dispVars, quotaVars, sessVars,
    gateVars, nameVars, loopVars>>

NextUpsert ==
  \/ \E j \in UpsertIds, o \in Origins, st \in UpsertStates, pr \in UpsertPriorities,
        pl \in UpsertPayloads, t \in 0..UpsertCalls :
       UpsertCall(j, o, st, pr, pl, t)

SpecUpsert == InitAll /\ [][NextUpsert]_vars

----------------------------------------------------------------------------
(* JobManager.publish_job and the validation in front of it.               *)

PublishCalls == 1      \* calls of publish_job

RequiredTop ==
  <<"job_id", "user_id", "chat_id", "message_id", "file_info", "telegram_context",
    "job_metadata">>
RequiredFileInfo == <<"file_id", "file_unique_id", "file_type">>
RequiredMetadata == <<"created_at", "priority", "retry_count", "max_retries">>

\* A key that is present with the value None (told apart from every set of
\* keys).
Null == {"<None>"}

\* The keys a value holds: payload.get(key) or {}.
KeysOf(v) == IF v = Null THEN {} ELSE v

\* The first entry of required that keys lacks, 0 when there is none.
FirstMissing(required, keys) ==
  IF \A i \in 1..Len(required) : required[i] \in keys THEN 0
  ELSE CHOOSE i \in 1..Len(required) :
         /\ required[i] \notin keys
         /\ \A k \in 1..(i - 1) : required[k] \in keys

\* Only the top-level keys are looked at.
ValidateJobPayload_TopOnly(payload) ==
  IF FirstMissing(RequiredTop, payload.keys) # 0
  THEN "missing field: " \o RequiredTop[FirstMissing(RequiredTop, payload.keys)]
  ELSE ""

\* _validate_job_payload: the text of the ValueError, "" when none is raised.
ValidateJobPayload(payload) ==
  LET t == FirstMissing(RequiredTop, payload.keys)
      f == FirstMissing(RequiredFileInfo, KeysOf(payload.file_info))
      m == FirstMissing(RequiredMetadata, KeysOf(payload.job_metadata))
  IN IF t # 0 THEN "missing field: " \o RequiredTop[t]
     ELSE IF f # 0 THEN "missing file_info." \o RequiredFileInfo[f]
     ELSE IF m # 0 THEN "missing job_metadata." \o RequiredMetadata[m]
     ELSE ""

\* The payloads handed to publish_job: at most one top-level key is absent;
\* file_info holds any of its keys, or is None; job_metadata lacks at most
\* one key, or is empty.
SeqSet(q) == {q[i] : i \in 1..Len(q)}

JobPayloads ==
  {[keys |-> ks, file_info |-> fi, job_metadata |-> jm] :
     ks \in {SeqSet(RequiredTop)}
              \cup {SeqSet(RequiredTop) \ {k} : k \in SeqSet(RequiredTop)},
     fi \in (SUBSET SeqSet(RequiredFileInfo)) \cup {Null},
     jm \in {SeqSet(RequiredMetadata), {}}
              \cup {SeqSet(RequiredMetadata) \ {k} : k \in SeqSet(RequiredMetadata)}}

\* publish_job(payload) on an initialized manager: validation, then the
\* message is sent to the exchange, which may fail.
PublishJob(payload, sent) ==
  /\ Len(jobLog) < PublishCalls
  /\ LET err == ValidateJobPayload(payload)
         q2  == IF err = "" /\ sent THEN Append(queue, payload) ELSE queue
     IN /\ queue' = q2
        /\ jobLog' = Append(jobLog,
             [payload |-> payload, error |-> err,
              to_broker |-> err = "", before |-> queue, after |-> q2])
  /\ UNCHANGED <<jobs, files, tg_map, bot, handler, issued, albumVars, guardVars,
                 pipeVars, dispVars, quotaVars, sessVars,
    gateVars, nameVars, loopVars>>

NextPublish ==
  \E p \in JobPayloads, sent \in BOOLEAN : PublishJob(p, sent)

SpecPublish == InitAll /\ [][NextPublish]_vars

----------------------------------------------------------------------------
(* The gate in front of the bot's handlers: every command handler starts   *)
(* with the whitelist test, _on_message with the test for a private chat   *)
(* and then the whitelist test.  One update is followed at a time.         *)

MaxUpdates == 2        \* updates received

Whitelist == {1}       \* cfg.telegram_whitelist_ids
NoUser    == 0         \* update.effective_user is None
UserIds   == {NoUser, 1, 2}
ChatTypes == {"private", "group"}
UpdateKinds == {"mtcode", "cancel", "media"}
Updates == [kind : UpdateKinds, user_id : UserIds, chat : ChatTypes]

\* Any user passes who has an id.
IsWhitelisted_AnyUser(user_id) == user_id # NoUser

\* _is_whitelisted(user_id, cfg)
IsWhitelisted(user_id) == user_id # NoUser /\ user_id \in Whitelist

\* The tests at the head of the handler the update is dispatched to.
Admitted(u) ==
  IF u.kind = "media"
  THEN u.chat = "private" /\ IsWhitelisted(u.user_id)
  ELSE IsWhitelisted(u.user_id)

\* The dispatcher calls the handler of the update.
GateReceive(u) ==
  /\ inbox.pc = "idle"
  /\ inbox.handled < MaxUpdates
  /\ inbox' = [inbox EXCEPT !.pc = "gate", !.update = u, !.handled = @ + 1]
  /\ UNCHANGED <<albumVars, guardVars, storeVars, pipeVars, jobVars, dispVars,
                 quotaVars, sessVars, nameVars, loopVars>>

\* The handler returns at once, or goes on to its body.
GateCheck ==
  /\ inbox.pc = "gate"
  /\ inbox' = [inbox EXCEPT !.pc = IF Admitted(inbox.update) THEN "run" ELSE "idle"]
  /\ UNCHANGED <<albumVars, guardVars, storeVars, pipeVars, jobVars, dispVars,
                 quotaVars, sessVars, nameVars, loopVars>>

\* The body of the handler is running for an update of this kind.
Running(kind) == inbox.pc = "run" /\ inbox.update.kind = kind

\* What the handlers' bodies have begun so far: codes stored, jobs
\* cancelled, messages given to the aggregator, jobs published, messages
\* given to process_batch.
Begun ==
  authLog.codes + Cardinality({k \in 1..Len(jobLog) : jobLog[k].by = "cancel"})
    + Cardinality(added) + issued + Cardinality(used)

\* The body of the handler begins one thing for its update.
Begins(kind) == Running(kind) /\ Begun < inbox.handled

\* The handler replies and returns.
GateDone ==
  /\ inbox.pc = "run"
  /\ bot["handler"].pc = "idle"
  /\ task["handler"].pc = "idle"
  /\ inbox' = [inbox EXCEPT !.pc = "idle", !.replies = @ + 1]
  /\ UNCHANGED <<albumVars, guardVars, storeVars, pipeVars, jobVars, dispVars,
                 quotaVars, sessVars, nameVars, loopVars>>

NextGate ==
  \/ \E u \in Updates : GateReceive(u)
  \/ GateCheck
  \/ GateDone
  \/ Begins("mtcode") /\ SubmitCode
  \/ \E j \in JobIds : Begins("cancel") /\ CmdCancel(j)
  \/ \E m \in AlbumMsgs : Begins("media") /\ Add(m)
  \/ Begins("media") /\ RoutePublish("handler")
  \/ Running("media") /\ RoutePersist("handler")
  \/ Begins("media") /\ StartBatch("handler")
  \/ Running("media") /\ GetFile("handler")
  \/ Running("media") /\ Download("handler")

SpecGate == InitAll /\ [][NextGate]_vars

----------------------------------------------------------------------------
(* The name builder (utils/slugging.py) and the keys of process_batch.     *)
(* A string is the sequence of its characters.                             *)

SAFE_MAX_FILENAME == 120

NumWords == 6

MaxOrdinal == MaxBatch   \* items named in one batch

Rep(c, n) == [i \in 1..n |-> c]

DigitChars == <<"0", "1", "2", "3", "4", "5", "6", "7", "8", "9">>

\* str(n), n >= 0
RECURSIVE Str(_)
Str(n) ==
  IF n < 10 THEN <<DigitChars[n + 1]>>
  ELSE Str(n \div 10) \o <<DigitChars[(n % 10) + 1]>>

\* f"{ordinal:03d}": zero-padded to at least three digits.
Pad3(n) == Rep("0", 3 - Len(Str(n))) \o Str(n)

\* The alphabet of the inputs: lower-case letters, digits, ".", "_", "-", "'"
\* and the characters below.
UpperCase == {"A", "B"}
Unsafe    == {" ", "!", "'"}          \* outside [a-zA-Z0-9._-]
NonWord   == {" ", "!", "."}          \* outside [\w'-]

Lowered(c) == CASE c = "A" -> "a" [] c = "B" -> "b" [] OTHER -> c

\* "-{2,}" replaced by "-" (computed by halves)
RECURSIVE SqueezeDashes(_)
SqueezeDashes(s) ==
  IF Len(s) < 2 THEN s
  ELSE LET h == Len(s) \div 2
           l == SqueezeDashes(SubSeq(s, 1, h))
           r == SqueezeDashes(SubSeq(s, h + 1, Len(s)))
       IN IF l[Len(l)] = "-" /\ r[1] = "-" THEN l \o Tail(r) ELSE l \o r

\* s.strip("-")
StripDashes(s) ==
  LET keep == {i \in 1..Len(s) : s[i] # "-"}
  IN IF keep = {} THEN <<>>
     ELSE SubSeq(s, CHOOSE i \in keep : \A j \in keep : i <= j,
                    CHOOSE i \in keep : \A j \in keep : j <= i)

\* slugify(unidecode(text), lowercase=True, regex_pattern="[^a-zA-Z0-9._-]+"):
\* lower-case, every run of unsafe characters becomes "-", runs of "-" are
\* squeezed and the ends stripped.
ToSafeSlug(text) ==
  StripDashes(SqueezeDashes(
    [i \in 1..Len(text) |->
       IF Lowered(text[i]) \in Unsafe THEN "-" ELSE Lowered(text[i])]))

\* re.findall(r"[\w'-]+", caption): the maximal runs of word characters.
RECURSIVE FindWords(_)
FindWords(s) ==
  IF s = <<>> THEN <<>>
  ELSE LET k == CHOOSE n \in 0..Len(s) :
                  /\ \A i \in 1..n : s[i] \notin NonWord
                  /\ n = Len(s) \/ s[n + 1] \in NonWord
       IN IF k = 0 THEN FindWords(Tail(s))
          ELSE <<SubSeq(s, 1, k)>> \o FindWords(SubSeq(s, k + 1, Len(s)))

\* "-".join(words)
RECURSIVE JoinDash(_)
JoinDash(words) ==
  IF words = <<>> THEN <<>>
  ELSE IF Len(words) = 1 THEN words[1]
  ELSE words[1] \o <<"-">> \o JoinDash(Tail(words))

\* caption_snippet(caption, num_words=6); no caption is the empty string.
CaptionSnippet(caption) ==
  LET words == FindWords(caption)
  IN IF caption = <<>> \/ words = <<>> THEN <<>>
     ELSE ToSafeSlug(JoinDash(SubSeq(words, 1, Min(NumWords, Len(words)))))

\* base[:-overflow], overflow > 0
DropRight(base, overflow) == SubSeq(base, 1, Len(base) - overflow)

\* name = f"{base}.{ext}"; if len(name) > SAFE_MAX_FILENAME: base = base[:-overflow]
FitName(base, ext) ==
  LET name == base \o <<".">> \o ext
  IN IF Len(name) > SAFE_MAX_FILENAME
     THEN DropRight(base, Len(name) - SAFE_MAX_FILENAME) \o <<".">> \o ext
     ELSE name

\* The part of the base ahead of the caption.
BaseOf(ts, chat_or_source, sender, message_id, media_group_id, ordinal) ==
  LET chat_part   == ToSafeSlug(chat_or_source)
      sender_part == IF sender # <<>> THEN ToSafeSlug(sender)
                     ELSE <<"u", "n", "k", "n", "o", "w", "n">>
      group_part  == IF media_group_id # <<>>
                     THEN <<"-", "g">> \o media_group_id ELSE <<>>
  IN ts \o <<"_">> \o chat_part \o <<"_">> \o sender_part \o <<"_", "m">>
        \o Str(message_id) \o group_part \o <<"_">> \o Pad3(ordinal)

\* build_filename(message_ts_utc, chat_or_source, sender, message_id,
\*                media_group_id, ordinal, caption, ext)
BuildFilename(ts, chat_or_source, sender, message_id, media_group_id, ordinal, caption, ext) ==
  LET cap_part == CaptionSnippet(caption)
      base0    == BaseOf(ts, chat_or_source, sender, message_id, media_group_id,
                         ordinal)
      base     == IF cap_part # <<>> THEN base0 \o <<"_">> \o cap_part ELSE base0
  IN FitName(base, ext)

\* message_ts_utc.strftime("%Y%m%d-%H%M%S") of the batch's first message.
Ts == <<"2", "0", "2", "4", "0", "1", "0", "2", "-", "0", "3", "0", "4", "0", "5">>

\* _detect_ext_and_mime for a document: the text after the last "." of the
\* file name, lower-cased, or "bin".
ExtOf(file_name) ==
  LET dots == {i \in 1..Len(file_name) : file_name[i] = "."}
  IN IF dots = {} THEN <<"b", "i", "n">>
     ELSE LET last == CHOOSE i \in dots : \A j \in dots : j <= i
              ext  == SubSeq(file_name, last + 1, Len(file_name))
          IN [i \in 1..Len(ext) |-> Lowered(ext[i])]

\* The inputs: chat names (a user name, a title with spaces, a long title),
\* senders, group ids, captions and file names.
LongTitle == 100
LongExt   == SAFE_MAX_FILENAME

ChatSources ==
  { <<"a", "b">>, <<"A", " ", " ", "b", "!">>, Rep("c", LongTitle) }

Senders == { <<"b", "o", "b">>, <<"4", "2">> }

GroupIds == { <<>>, <<"7", "7">> }

Captions ==
  { <<>>, <<"a", " ", "B">>,
    <<"a", " ", "b", " ", "a", " ", "b", " ", "a", " ", "b", " ", "x">> }

FileNames ==
  { <<"a", ".", "b", ".", "A", "b">>, <<"r", "a", "w">>,
    <<"a", ".">> \o Rep("x", LongExt) }

\* process_batch up to its loop: chat_slug and base_path from messages[0].
NameStart(src, mid, gid) ==
  /\ naming.pc = "idle"
  /\ naming' = [pc |-> "loop", chat_slug |-> ToSafeSlug(src), message_id |-> mid,
                media_group_id |-> gid, idx |-> 1, items |-> <<>>, keys |-> <<>>]
  /\ UNCHANGED <<albumVars, guardVars, storeVars, pipeVars, jobVars, dispVars,
                 quotaVars, sessVars, gateVars, loopVars>>

\* key = f"{base_path}{fname}" with base_path = teltubby/Y/M/<chat_slug>/<id>/
ObjectKey(chat_slug, message_id, fname) ==
  [base |-> <<chat_slug, message_id>>, name |-> fname]

\* One new item of the loop: its name is built and it is uploaded under key.
\* A batch without group id holds one message.
NameItem(sender, caption, file_name) ==
  /\ naming.pc = "loop"
  /\ naming.idx <= (IF naming.media_group_id = <<>> THEN 1 ELSE MaxOrdinal)
  /\ LET ext   == ExtOf(file_name)
         fname == BuildFilename(Ts, naming.chat_slug, sender, naming.message_id,
                                naming.media_group_id, naming.idx, caption, ext)
     IN naming' =
          [naming EXCEPT
             !.idx = @ + 1,
             !.items = Append(@, [ordinal |-> naming.idx, sender |-> sender,
                                  caption |-> caption, ext |-> ext]),
             !.keys = Append(@, ObjectKey(naming.chat_slug, naming.message_id,
                                          fname))]
  /\ UNCHANGED <<albumVars, guardVars, storeVars, pipeVars, jobVars, dispVars,
                 quotaVars, sessVars, gateVars, loopVars>>

\* process_batch returns.
NameDone ==
  /\ naming.pc = "loop"
  /\ naming.idx > 1
  /\ naming' = [naming EXCEPT !.pc = "done"]
  /\ UNCHANGED <<albumVars, guardVars, storeVars, pipeVars, jobVars, dispVars,
                 quotaVars, sessVars, gateVars, loopVars>>

NextNames ==
  \/ \E src \in ChatSources, mid \in 1..2, gid \in GroupIds : NameStart(src, mid, gid)
  \/ \E sender \in Senders, caption \in Captions, file_name \in FileNames :
       NameItem(sender, caption, file_name)
  \/ NameDone

SpecNames == InitAll /\ [][NextNames]_vars

\* The same with file names whose extension leaves room for the base.
PlainFileNames == {f \in FileNames : Len(ExtOf(f)) + 1 < SAFE_MAX_FILENAME}

NextPlainNames ==
  \/ \E src \in ChatSources, mid \in 1..2, gid \in GroupIds : NameStart(src, mid, gid)
  \/ \E sender \in Senders, caption \in Captions, file_name \in PlainFileNames :
       NameItem(sender, caption, file_name)
  \/ NameDone

SpecPlainNames == InitAll /\ [][NextPlainNames]_vars

----------------------------------------------------------------------------
(* Simulate mode: Worker.start, the monitor, and how a job's content is    *)
(* acquired.                                                               *)

\* How Worker.start ends: the session is initialized and the monitor task
\* created, or the credentials are missing, or _initialize_mtproto raises.
StartOutcomes == {"started", "no_credentials", "init_raises"}

StartedWorker(outcome) ==
  [NewWorker EXCEPT !.simulate_download = (outcome # "started")]

\* The worker after start(), with SessionJobs jobs stored and queued.
InitSimulate ==
  /\ InitAlbum /\ InitGuard /\ InitPipe /\ InitDispatch /\ InitQuota
  /\ inbox = IdleInbox
  /\ naming = IdleNaming
  /\ loop = SleepingLoop
  /\ worker \in {StartedWorker(o) : o \in StartOutcomes}
  /\ auth = [a \in AuthTasks |-> IdleAuth]
  /\ secrets = NoSecret
  /\ authLog = NoAuthLog
  /\ files = <<>>
  /\ tg_map = <<>>
  /\ jobs = StoredJobs(SessionJobs)
  /\ queue = [j \in 1..SessionJobs |-> Payload(j)]
  /\ bot = [t \in Tasks |-> IdleBot]
  /\ handler = [h \in Handlers |-> IdleHandler]
  /\ issued = SessionJobs
  /\ jobLog = <<>>

\* Every job is downloaded through the session.
Acquisition_Real(w) == "download"

\* if self._simulate_download: a file of size_bytes zeros is written;
\* else: download_file_by_message.
Acquisition(w) == IF w.simulate_download THEN "placeholder" ELSE "download"

\* The content of the job is acquired: the placeholder, or the download and
\* its checks, which may raise.
SimAcquire(h, outcome) ==
  /\ handler[h].pc = "acquire"
  /\ Acquisition(worker) = "placeholder" => outcome = "ok"
  /\ auth' = [auth EXCEPT ![h].fetched = Acquisition(worker)]
  /\ IF outcome = "ok"
     THEN /\ handler' = [handler EXCEPT ![h].pc = "upload"]
          /\ UNCHANGED <<jobs, jobLog, worker>>
     ELSE FailJob(h, "download", worker)
  /\ UNCHANGED <<queue, bot, issued, secrets, authLog, wall, notSession>>

\* The worker from start() on: jobs, the monitor, probes and recoveries
\* (a recovery that waits for a login code ends like one that does not).
NextSimulate ==
  \/ \E h \in Handlers : SessionDeliver(h)
  \/ MonitorWakes
  \/ \E a \in AuthTasks, ans \in HealthAnswers : SessionProbe(a, ans)
  \/ \E a \in AuthTasks, o \in {"authorized", "raises"} : SessionExpiry(a, o)
  \/ \E h \in Handlers, ans \in HealthAnswers : SessionProbeAgain(h, ans)
  \/ \E h \in Handlers, o \in DownloadOutcomes : SimAcquire(h, o)
  \/ \E h \in Handlers : WorkerUpload(h)
  \/ \E h \in Handlers : WorkerUploadFails(h)
  \/ \E h \in Handlers : WorkerComplete(h)

SpecSimulate == InitSimulate /\ [][NextSimulate]_vars

----------------------------------------------------------------------------
(* The finalizer task: _finalizer_loop, one batch at a time.               *)

MaxTicks == 2     \* passes of the loop
MaxReady == 2     \* batches pop_ready_albums releases on one tick

\* The awaits of the loop, where a cancellation of the task arrives.
LoopAwaits == {"sleep", "route", "notify_jobs", "pipeline", "report", "except"}

\* The exception leaves the loop and ends the task.
Raised_Escapes(step) == "stopped"

\* Where an Exception raised by a step goes: the success telemetry has its
\* own try/except and so has the failure message of the except branch; every
\* other step of a batch is inside the batch's try.
Raised(step) ==
  IF step \in {"ack", "except"} THEN "next" ELSE "except"

\* The batch is over: the for loop goes on.
Finish(l, result) ==
  [l EXCEPT !.pc = "next", !.batch = 0, !.results = Append(@, result),
            !.failed = @ \/ result = "failed"]

\* A step of the current batch raises.
Fail(l, step, result) ==
  CASE Raised(step) = "except" -> [l EXCEPT !.pc = "except"]
    [] Raised(step) = "next"   -> Finish(l, result)
    [] OTHER                   -> [l EXCEPT !.pc = "stopped"]

\* What no step of the finalizer loop touches.
notLoop ==
  <<albumVars, guardVars, storeVars, pipeVars, jobVars, dispVars, quotaVars, sessVars,
    gateVars, nameVars>>

\* await asyncio.sleep(1); ready_batches = await pop_ready_albums()
LoopPop(n) ==
  /\ loop.pc = "sleep"
  /\ loop.tick < MaxTicks
  /\ loop' = [loop EXCEPT !.pc = "next", !.tick = @ + 1,
                          !.ready = [k \in 1..n |-> k], !.results = <<>>]
  /\ UNCHANGED notLoop

\* for items in ready_batches: the next batch, or back to the sleep.
LoopNext ==
  /\ loop.pc = "next"
  /\ loop' = IF loop.ready = <<>> THEN [loop EXCEPT !.pc = "sleep"]
             ELSE [loop EXCEPT !.pc = "quota", !.batch = Head(loop.ready),
                               !.ready = Tail(@), !.queued = FALSE,
                               !.rest = FALSE, !.res = ""]
  /\ UNCHANGED notLoop

\* The quota pause: used_ratio() >= 1.0 skips the batch.
LoopQuota(outcome) ==
  /\ loop.pc = "quota"
  /\ loop' = CASE outcome = "go"     -> [loop EXCEPT !.pc = "route"]
               [] outcome = "paused" -> Finish(loop, "paused")
               [] OTHER              -> Fail(loop, "quota", "failed")
  /\ UNCHANGED notLoop

\* The routing loop: get_file probes, publish_job and upsert_job for the
\* oversized items; queued: some item became a job, rest: some item is left
\* for process_batch.
LoopRoute(queued, rest, ok) ==
  /\ loop.pc = "route"
  /\ queued \/ rest
  /\ loop' = IF ok
             THEN [loop EXCEPT !.queued = queued, !.rest = rest,
                     !.pc = IF queued THEN "notify_jobs" ELSE "pipeline"]
             ELSE Fail(loop, "route", "failed")
  /\ UNCHANGED notLoop

\* send_message(format_jobs_queued(queued_jobs))
LoopNotifyJobs(ok) ==
  /\ loop.pc = "notify_jobs"
  /\ loop' = IF ok
             THEN [loop EXCEPT !.pc = IF loop.rest THEN "pipeline" ELSE "report"]
             ELSE Fail(loop, "notify_jobs", "failed")
  /\ UNCHANGED notLoop

\* res = await process_batch(...)
LoopPipeline(outcome) ==
  /\ loop.pc = "pipeline"
  /\ loop' = IF outcome = "raises" THEN Fail(loop, "pipeline", "failed")
             ELSE [loop EXCEPT !.pc = "report", !.res = outcome]
  /\ UNCHANGED notLoop

\* The message the batch ends with: the failure message when nothing was
\* queued and every item was skipped, the telemetry ack when nothing was
\* queued, none after the notice of the queued jobs.
ReportKind(l) ==
  IF l.queued THEN "none"
  ELSE IF l.res = "all_skipped" THEN "report_failure" ELSE "ack"

LoopReport(ok) ==
  /\ loop.pc = "report"
  /\ ReportKind(loop) = "none" => ok
  /\ loop' = IF ok THEN Finish(loop, "done")
             ELSE Fail(loop, ReportKind(loop), "done")
  /\ UNCHANGED notLoop

\* except Exception: the failure message is sent, inside its own try.
LoopExcept(ok) ==
  /\ loop.pc = "except"
  /\ loop' = IF ok THEN Finish(loop, "failed") ELSE Fail(loop, "except", "failed")
  /\ UNCHANGED notLoop

\* stop(): self._finalizer_task.cancel(); except asyncio.CancelledError.
LoopCancel ==
  /\ loop.pc \in LoopAwaits
  /\ loop' = [loop EXCEPT !.pc = "stopped", !.cancelled = TRUE]
  /\ UNCHANGED notLoop

\* The steps of the task other than its cancellation.
LoopRuns ==
  \/ \E n \in 0..MaxReady : LoopPop(n)
  \/ LoopNext
  \/ \E o \in {"go", "paused", "raises"} : LoopQuota(o)
  \/ \E queued, rest, ok \in BOOLEAN : LoopRoute(queued, rest, ok)
  \/ \E ok \in BOOLEAN : LoopNotifyJobs(ok)
  \/ \E o \in {"uploaded", "all_skipped", "raises"} : LoopPipeline(o)
  \/ \E ok \in BOOLEAN : LoopReport(ok)
  \/ \E ok \in BOOLEAN : LoopExcept(ok)

NextLoop == LoopRuns \/ LoopCancel

SpecLoop == InitAll /\ [][NextLoop]_vars

\* The event loop runs the task whenever its await has returned.
FairLoop == SpecLoop /\ WF_vars(LoopRuns)

\* The whole program: every subsystem may step.
Next ==
  \/ NextAlbum \/ NextGuard \/ NextStore \/ NextPipeline \/ NextJobs \/ NextDispatch
  \/ NextTracker \/ NextQuota \/ NextRetry \/ NextSession \/ NextProbe
  \/ NextCodes \/ NextTemp \/ NextUpsert \/ NextPublish \/ NextGate \/ NextNames
  \/ NextPlainNames \/ NextSimulate \/ NextLoop

Spec == InitAll /\ [][Next]_vars

----------------------------------------------------------------------------
(* Claims about the album aggregator (SpecAlbum)                           *)

InBuckets(m) == \E i \in 1..Len(buckets) : m \in SeqRange(buckets[i].items)

\* The number of places a message takes in the released batches.
TimesReleased(m) == CountIn(FlattenSeq(released), m)

\* C1: every message with a group id that was handed to add is, once it no
\* longer waits in a bucket, contained in exactly one released batch: never in
\* none (lost) and never in two.  A message arriving at an expired bucket must
\* therefore wait for a later batch.
C1_EveryMessageInExactlyOneBatch ==
  \A m \in added :
    m.media_group_id # NoGroup =>
      IF InBuckets(m) THEN TimesReleased(m) = 0 ELSE TimesReleased(m) = 1

\* now - bucket.started_at_monotonic
Elapsed(b) == now - b.started_at_monotonic

\* C13: when add(m) finds the bucket of m's group with elapsed >= window, it
\* returns exactly the messages appended before, in arrival order and without
\* m, and removes the bucket and nothing else; no step takes a batch back or
\* leaves a released message in a bucket.
C13_ExpiredBucketReleased ==
  [][/\ \A m \in AlbumMsgs :
          LET g == m.media_group_id
              i == BucketIdx(buckets, g)
          IN (Add(m) /\ g # NoGroup /\ i # 0 /\ Elapsed(buckets[i]) >= Window) =>
               /\ lastRet' = Batch(buckets[i].items)
               /\ m \notin SeqRange(lastRet'.items)
               /\ released' = Append(released, buckets[i].items)
               /\ buckets' = RemoveAt(buckets, i)
               /\ BucketIdx(buckets', g) = 0
     /\ Len(released') >= Len(released)
     /\ SubSeq(released', 1, Len(released)) = released
     /\ \A k \in 1..Len(buckets') :
          SeqRange(buckets'[k].items) \cap SeqRange(FlattenSeq(released')) = {}]_vars

\* The last message handed to add found its group's bucket expired and got
\* the earlier messages of the group back.
C13_Witness ==
  \E m \in added :
    /\ m.message_id = Cardinality(added)
    /\ m.media_group_id # NoGroup
    /\ lastRet.kind = "batch"
    /\ lastRet.items # <<>>
    /\ m \notin SeqRange(lastRet.items)
    /\ \A k \in 1..Len(lastRet.items) : lastRet.items[k].media_group_id = m.media_group_id

C15_FlushExactlyExpired ==
  [][Flush =>
       LET expired == SelectSeq(buckets, LAMBDA b : Elapsed(b) >= Window)
       IN /\ buckets' = SelectSeq(buckets, LAMBDA b : Elapsed(b) < Window)
          /\ released' = released \o [k \in 1..Len(expired) |-> expired[k].items]]_vars

\* A flush has released a whole group (no message of a group is lost, so no
\* add released it) and has left a younger bucket in place.
C15_Witness ==
  /\ buckets # <<>>
  /\ \A m \in added : m.media_group_id # NoGroup => InBuckets(m) \/ TimesReleased(m) = 1
  /\ \E k \in 1..Len(released) : released[k][1].media_group_id # NoGroup

\* C18: add(m) for a message without group id returns the batch [m] and
\* leaves every bucket and every lock entry as it was.
C18_SingletonFrame ==
  [][\A m \in AlbumMsgs :
       (Add(m) /\ m.media_group_id = NoGroup) =>
         /\ lastRet' = Batch(<<m>>)
         /\ released' = Append(released, <<m>>)
         /\ buckets' = buckets
         /\ locks' = locks]_vars

\* A message without group id was returned at once while a bucket was waiting.
C18_Witness ==
  /\ buckets # <<>>
  /\ lastRet.kind = "batch"
  /\ Len(lastRet.items) = 1
  /\ lastRet.items[1].media_group_id = NoGroup
  /\ lastRet.items[1].message_id = Cardinality(added)

----------------------------------------------------------------------------
(* Claims about the aggregator's tasks (SpecGuard, SpecFlusher)            *)

HasBucket(g, t0) ==
  \E k \in 1..Len(buckets) :
    buckets[k].mgid = g /\ buckets[k].started_at_monotonic = t0

InSection(g) ==
  {a \in Adders : adder[a].pc \in {"section", "exit"}
                    /\ adder[a].msg.media_group_id = g}
  \cup (IF flusher.pc \in {"section", "exit"} /\ Head(flusher.cands) = g
        THEN {"flusher"} ELSE {})

\* The Lock objects held by the tasks that are inside a section.
LocksInUse ==
  {adder[a].lock : a \in {x \in Adders : adder[x].pc \in {"section", "exit"}}}
  \cup (IF flusher.pc \in {"section", "exit"} THEN {flusher.lock} ELSE {})

----------------------------------------------------------------------------
(* Claims about process_batch (SpecPipeline)                               *)

ItemPuts(h) == {e \in putlog : e.kind = "item" /\ e.sha = h}

\* C2: whatever the interleaving of the handler's and the finalizer's
\* process_batch calls, a content hash is uploaded at most once, and it has a
\* file record exactly when it was uploaded once.
C2_SingleFlight ==
  \A h \in Hashes :
    /\ Cardinality(ItemPuts(h)) <= 1
    /\ h \in DOMAIN files <=> Cardinality(ItemPuts(h)) = 1

\* One task has uploaded and recorded the bytes while the other task is still
\* suspended in the download of the same bytes.
C2_Witness ==
  \E t \in Tasks :
    /\ task[t].pc = "download"
    /\ task[t].sorted[task[t].idx].content \in DOMAIN files
    /\ Cardinality(ItemPuts(task[t].sorted[task[t].idx].content)) = 1

\* C5: when get_file, the download, or the upload fails for one item, that item
\* gets a skipped outcome download_failed or upload_failed, the batch still
\* yields one outcome per message, and its manifest is written.
C5_ItemFailureContained ==
  \A f \in finished :
    f.failed_step \in {"get_file", "download", "upload"} =>
      /\ f.base \in DOMAIN manifests
      /\ Len(f.outcomes) = Len(f.messages)
      /\ f.outcomes[f.failed_ordinal].skipped_reason
           \in {"download_failed", "upload_failed"}

RECURSIVE SumSizes(_)
SumSizes(es) ==
  IF es = {} THEN 0
  ELSE LET e == CHOOSE x \in es : TRUE IN SizeOf(e.sha) + SumSizes(es \ {e})

\* The bytes a batch put into the object store as new content.
NewBytes(base) == SumSizes({e \in putlog : e.kind = "item" /\ e.key.base = base})

\* C6: the total_bytes_uploaded of every manifest is the sum of the sizes of
\* the batch's items that were uploaded as new content.
C6_ManifestTotalBytes ==
  \A b \in DOMAIN manifests : manifests[b].total_bytes_uploaded = NewBytes(b)

\* The outcomes of the process_batch call with this base path, running or ended.
OutcomesOf(base) ==
  IF \E t \in Tasks : task[t].base = base
  THEN task[CHOOSE t \in Tasks : task[t].base = base].outcomes
  ELSE (CHOOSE f \in finished : f.base = base).outcomes

\* As the callers count them: an outcome with a key and no skip reason.
Successful(o) == o.s3_key # NoKey /\ o.skipped_reason = ""

\* C7: in every manifest, keys[] holds exactly the s3_key values of the
\* batch's successful outcomes, and files_count is the length of keys[].
C7_ManifestKeys ==
  \A b \in DOMAIN manifests :
    LET os == OutcomesOf(b)
    IN /\ SeqRange(manifests[b].keys)
            = {os[i].s3_key : i \in {k \in 1..Len(os) : Successful(os[k])}}
       /\ manifests[b].files_count = Len(manifests[b].keys)

\* A manifest of a batch of two: one upload and one skipped item.
C7_Witness ==
  \E b \in DOMAIN manifests :
    /\ manifests[b].files_count = 1
    /\ Len(manifests[b].items) = 2
    /\ BuildKey(b, 1) \in s3objects \/ BuildKey(b, 2) \in s3objects

\* C8: the manifest is the last object a batch puts: every put of the batch
\* precedes it, the call has ended with one outcome per message, and no task
\* still works on the batch.
C8_ManifestAfterItems ==
  \A e \in putlog :
    e.kind = "manifest" =>
      /\ \A e2 \in putlog : e2.key.base = e.key.base => e2.seq <= e.seq
      /\ \A t \in Tasks : task[t].base # e.key.base
      /\ \E f \in finished :
           /\ f.base = e.key.base
           /\ f.status = "returned"
           /\ Len(f.outcomes) = Len(f.messages)

\* A manifest put after two item uploads of its batch.
C8_Witness ==
  \E e \in putlog : e.kind = "manifest" /\ e.seq = 3

C12_RecordAfterUpload ==
  \A h \in DOMAIN files :
    /\ files[h].s3_key \in s3objects
    /\ \E e \in putlog : e.kind = "item" /\ e.key = files[h].s3_key /\ e.sha = h

\* A file record exists, and the upload of another item has failed.
C12_Witness ==
  /\ DOMAIN files # {}
  /\ \E f \in finished : f.status = "raised" /\ f.failed_step = "upload"

\* s is in ascending order of the messages' dates.
AscendingDates(s) == \A i, j \in 1..Len(s) : i < j => s[i].date <= s[j].date

\* C19: process_batch works through the messages of a batch in ascending date
\* order whatever order they arrived in: a running call has one outcome for
\* each message before its current one, and a call that returned has exactly
\* one outcome per input message, the i-th with ordinal i and about the i-th
\* message in date order.
C19_TimestampOrder ==
  /\ \A t \in Tasks :
       task[t].pc # "idle" =>
         /\ AscendingDates(task[t].sorted)
         /\ SeqRange(task[t].sorted) = SeqRange(task[t].messages)
         /\ Len(task[t].outcomes) = task[t].idx - 1
         /\ \A i \in 1..Len(task[t].outcomes) :
              /\ task[t].outcomes[i].ordinal = i
              /\ task[t].outcomes[i].file_unique_id = task[t].sorted[i].file_unique_id
  /\ \A f \in finished :
       f.status = "returned" =>
         /\ AscendingDates(f.messages)
         /\ Len(f.messages) = Len(f.input)
         /\ SeqRange(f.messages) = SeqRange(f.input)
         /\ Len(f.outcomes) = Len(f.input)
         /\ \A i \in 1..Len(f.outcomes) :
              /\ f.outcomes[i].ordinal = i
              /\ f.outcomes[i].file_unique_id = f.messages[i].file_unique_id

\* A batch whose messages arrived against their date order has returned.
C19_Witness ==
  \E f \in finished :
    /\ f.status = "returned"
    /\ Len(f.input) = 2
    /\ f.input[1].date > f.input[2].date
    /\ f.outcomes[1].s3_key # NoKey

----------------------------------------------------------------------------
(* Claims about the store (SpecStore)                                      *)

\* A step of the store that is a call of record.
RecordStep ==
  \E sha \in Hashes, key \in StoreKeys, uid \in Uids \cup {NoUid} :
    StoreRecord(sha, key, uid)

\* C11: a call of record changes no file record and no source map entry that
\* is already present, so check_by_sha256 keeps returning the first key; and
\* the same call once more changes nothing.
C11_RecordCreateOnly ==
  [][RecordStep =>
       /\ \A h \in DOMAIN files :
            /\ h \in DOMAIN files' /\ files'[h] = files[h]
            /\ CheckBySha256(files', h) = CheckBySha256(files, h)
       /\ \A u \in DOMAIN tg_map : u \in DOMAIN tg_map' /\ tg_map'[u] = tg_map[u]
       /\ \A sha \in Hashes, key \in StoreKeys, uid \in Uids \cup {NoUid} :
            StoreRecord(sha, key, uid) =>
              Record(files', tg_map', sha, key, SizeOf(sha), uid)
                = [files |-> files', tg_map |-> tg_map']]_vars

\* record was called for a hash that already had its file record: two source
\* ids map to the one record.
C11_Witness ==
  \E h \in DOMAIN files :
    Cardinality({u \in DOMAIN tg_map : tg_map[u] = h}) >= 2

\* C10: every source map entry's hash references an existing file record.
C10_SourceMapReferencesFile ==
  \A u \in DOMAIN tg_map : tg_map[u] \in DOMAIN files

----------------------------------------------------------------------------
(* Claims about the job life cycle (SpecJobs)                              *)

JobLogOf(j) == SelectSeq(jobLog, LAMBDA e : e.job = j)

\* A write that follows the state machine.  Writes that leave the state as it
\* was and writes to a missing row change nothing; cancelling a PENDING job is
\* not counted against the claim.
FollowsStateMachine(e) ==
  \/ e.from = e.to
  \/ e.from = NoState /\ e.to = "PENDING"
  \/ e.from = "PENDING" /\ e.to \in {"PROCESSING", "CANCELLED"}
  \/ e.from = "PROCESSING" /\ e.to \in {"COMPLETED", "FAILED", "CANCELLED"}
  \/ e.from \in {"FAILED", "CANCELLED"} /\ e.to = "PENDING" /\ e.by = "retry"

\* C3: every change of a job's stored state follows PENDING -> PROCESSING ->
\* (COMPLETED | FAILED | CANCELLED), FAILED and CANCELLED go back to PENDING
\* only by /retry, and COMPLETED is never left.
C3_JobStateMachine ==
  \A i \in 1..Len(jobLog) : FollowsStateMachine(jobLog[i])

\* C4: a job that was routed by the bot, never retried or cancelled, and handled
\* successfully by the worker went PENDING -> PROCESSING -> COMPLETED and is
\* COMPLETED, whatever the interleaving of the bot's two steps with the worker.
C4_RoutedJobCompletes ==
  \A j \in JobIds :
    LET es == JobLogOf(j)
    IN (/\ \A i \in 1..Len(es) : es[i].by \in {"route", "worker", "worker_done"}
        /\ \E i \in 1..Len(es) : es[i].by = "route"
        /\ \E i \in 1..Len(es) : es[i].by = "worker_done")
       => /\ JobState(jobs, j) = "COMPLETED"
          /\ [i \in 1..Len(es) |-> es[i].to] = <<"PENDING", "PROCESSING", "COMPLETED">>

----------------------------------------------------------------------------
(* Claims about the handler's routing loop (checked under SpecDispatch)    *)

UsedIds == {m.id : m \in used}

\* The handler call named c has left the loop and made its hand-off, if any.
CallOver(c) == router.pc = "idle" \/ router.items[1].id # c

CallAborted(c) == \E r \in routed : r.call = c /\ r.path = "publish_failed"

GateSkipped(o) == o.skipped_reason \in {"exceeds_bot_limit", "exceeds_cfg_limit"}

\* No item of msgs declared at the limit has a size-gate outcome in outs.
NoGateSkipAtLimit(msgs, outs) ==
  \A i \in 1..Len(outs) : msgs[i].file_size = BotLimit => ~GateSkipped(outs[i])

OnQueue(j) == \E k \in 1..Len(queue) : queue[k] = Payload(j)

----------------------------------------------------------------------------
(* Claims about the quota pause (SpecQuota) and the tracker (SpecTracker)  *)

\* Nothing was done for the batch of gate entry g: no item routed, none
\* handed to process_batch, no object or manifest written under its path.
Untouched(g) ==
  /\ g.ids \cap (RoutedIds \cup UsedIds) = {}
  /\ \A e \in putlog : e.key.base # g.call
  /\ g.call \notin DOMAIN manifests

\* C21: a ready batch that meets a configured quota at ratio >= 1.0 is left
\* alone (not routed, not processed, nothing written) and its user is sent the
\* pause notice, by the handler and by the finalizer alike; below 1.0 the
\* batch is admitted.
C21_QuotaPause ==
  \A g \in gated :
    /\ (g.configured /\ AtLeastOne(g.ratio))
         => g.outcome = "paused" /\ g.notice /\ Untouched(g)
    /\ ~AtLeastOne(g.ratio) => g.outcome = "admitted"

\* C22: a used_ratio() call whose enumeration fails keeps the remembered size
\* and computes the ratio from it; without a remembered size it returns
\* unknown (a remembered size of zero may also give ratio 0).
C22_FailedListingKeepsLast ==
  (refreshed.listed /\ ~refreshed.ok)
    => /\ refreshed.stored = refreshed.prior
       /\ refreshed.prior > 0
            => refreshed.ratio = Ratio(Min(refreshed.prior, quota.quota), quota.quota)
       /\ refreshed.prior = 0
            => refreshed.ratio \in {Unknown, Ratio(0, quota.quota)}

----------------------------------------------------------------------------
(* Claims about the worker's failures, /cancel and /retry (SpecJobs)       *)

\* The state the worker found in job j's row when it last took a message of j:
\* the `from` of the last write of the worker's handling to j's row.
LastWorkerWrite(j) ==
  LET ks == {k \in 1..Len(jobLog) : jobLog[k].job = j /\ jobLog[k].by = "worker"}
  IN IF ks = {} THEN NoState
     ELSE jobLog[CHOOSE k \in ks : \A k2 \in ks : k2 <= k].from

\* Handler h has the content of its job: the download is done.
HasContent(h) == handler[h].pc \in {"upload", "complete"}

\* C23: a step in which the worker's handling of a message ends in its except
\* branch leaves the job FAILED with the error as last_error, adds one to the
\* failed counter and puts no message back on the queue.
C23_ExceptionFailsJob ==
  [][\A h \in Handlers :
       (handler[h].pc \in {"acquire", "upload"} /\ handler'[h].pc = "idle")
         => /\ JobState(jobs', handler[h].job) = "FAILED"
            /\ jobs'[handler[h].job].last_error # ""
            /\ worker'.jobs_failed = worker.jobs_failed + 1
            /\ queue' = queue]_vars

\* C24: two handlers never hold the same job id, and a message delivered for
\* a job whose row is PROCESSING or COMPLETED is not downloaded or uploaded.
C24_NoSecondProcessing ==
  /\ \A h1, h2 \in Handlers :
       (h1 # h2 /\ handler[h1].pc # "idle" /\ handler[h2].pc # "idle")
         => handler[h1].job # handler[h2].job
  /\ \A h \in Handlers :
       HasContent(h) => LastWorkerWrite(handler[h].job) \notin {"PROCESSING", "COMPLETED"}

\* C25: the worker never moves a row out of CANCELLED, and never downloads or
\* uploads for a job it found CANCELLED.
C25_CancelRespected ==
  /\ \A k \in 1..Len(jobLog) :
       (jobLog[k].by \in {"worker", "worker_done"} /\ jobLog[k].from = "CANCELLED")
         => jobLog[k].to = "CANCELLED"
  /\ \A h \in Handlers :
       HasContent(h) => LastWorkerWrite(handler[h].job) # "CANCELLED"

----------------------------------------------------------------------------
(* Claims about the worker's session check and recovery                    *)

\* The handler holds the content of its job, or is about to fetch it.
HasOrFetches(h) == handler[h].pc \in {"acquire", "upload", "complete"}

RecoveryError == "Failed to recover MTProto session"

\* The step is the second probe of handler h, and it finds the session
\* unhealthy.
SecondProbeFails(h) ==
  /\ auth[h].pc = "probe2"
  /\ auth'[h].probes = Append(auth[h].probes, FALSE)

C28_SimulateAfterMaxFailures ==
  /\ \A n \in authLog.simulate_at : n >= MaxAuthFailures
  /\ authLog.streak >= MaxAuthFailures => worker.simulate_download


\* Handler h has found the session unhealthy and is inside the recovery.
InRecovery(h) ==
  handler[h].pc = "check" /\ auth[h].pc \in {"expiry", "wait_code", "sign_in"}

\* C29: a job whose handler found the session unhealthy leaves PROCESSING,
\* whether or not an administrator ever submits a code.
C29_UnhealthyJobLeavesProcessing ==
  \A h \in Handlers, j \in 1..SessionJobs :
    (InRecovery(h) /\ handler[h].job = j) ~> (jobs[j].state # "PROCESSING")


----------------------------------------------------------------------------
(* Claims about the login codes (SpecCodes)                                *)

\* C30: a stored verification code is single-use: it is handed to at most
\* one login attempt, it is no longer stored once it has been read, and it
\* is at most FreshWindow old when it is handed out.
C30_CodeSingleUse ==
  /\ [](\A c \in authLog.consumed :
          /\ c.age \in 0..FreshWindow
          /\ secrets.id # c.id
          /\ \A d \in authLog.consumed : d.id = c.id => d = c)
  /\ [][authLog'.consumed # authLog.consumed =>
          /\ secrets' = NoSecret
          /\ Cardinality(authLog'.consumed) = Cardinality(authLog.consumed) + 1]_vars

\* One login attempt has taken its code while another still waits, and the
\* code stored since has gone stale.
C30_Witness ==
  \E a, b \in AuthTasks :
    /\ auth[a].pc = "sign_in"
    /\ auth[b].pc = "wait_code"
    /\ authLog.consumed # {}
    /\ secrets # NoSecret
    /\ GetSecretSince(secrets, wall - FreshWindow) = NoSecret


----------------------------------------------------------------------------
(* Claims about the worker's temporary files (SpecTemp)                    *)

\* C31: the handler removes the temporary file of its job on every way out
\* (success, failed download, failed size check, failed upload): no file is
\* left behind by a handler that has returned.
C31_NoTempFileOutlivesHandler ==
  /\ worker.tmp_left = 0
  /\ \A h \in Handlers : handler[h].pc \in {"idle", "complete"} => ~worker.tmp[h]


----------------------------------------------------------------------------
(* Claims about upsert_job (SpecUpsert)                                    *)

\* C32: on an existing job id upsert_job overwrites state, priority and
\* updated-at, keeps the stored payload when it is passed none and replaces
\* it otherwise, and leaves created-at, user, chat and message id alone; on
\* a new id it inserts the row with created-at = updated-at = now.
C32_UpsertJob ==
  \A k \in 1..Len(jobLog) :
    LET e == jobLog[k]
    IN /\ e.after.state = e.state
       /\ e.after.priority = e.priority
       /\ e.after.updated_at = e.now_iso
       /\ e.existed =>
            /\ e.after.payload_json =
                 IF e.payload = NoPayload THEN e.before.payload_json ELSE e.payload
            /\ e.after.created_at = e.before.created_at
            /\ e.after.user_id = e.before.user_id
            /\ e.after.chat_id = e.before.chat_id
            /\ e.after.message_id = e.before.message_id
       /\ ~e.existed =>
            /\ e.after.created_at = e.now_iso
            /\ e.after.payload_json = e.payload
            /\ e.after.user_id = e.origin.user_id
            /\ e.after.chat_id = e.origin.chat_id
            /\ e.after.message_id = e.origin.message_id

\* A later call for a stored job names another user, chat and message and
\* passes no payload.
C32_Witness ==
  \E k \in 1..Len(jobLog) :
    LET e == jobLog[k]
    IN /\ e.existed
       /\ e.payload = NoPayload
       /\ e.before.payload_json # NoPayload
       /\ e.origin.user_id # e.before.user_id
       /\ e.state # e.before.state
       /\ e.priority # e.before.priority
       /\ e.now_iso > e.before.created_at


----------------------------------------------------------------------------
(* Claims about publish_job (SpecPublish)                                  *)

\* The payload has every required key, at the top and in its two objects.
Complete(p) ==
  /\ SeqSet(RequiredTop) \subseteq p.keys
  /\ p.file_info # Null /\ SeqSet(RequiredFileInfo) \subseteq p.file_info
  /\ p.job_metadata # Null /\ SeqSet(RequiredMetadata) \subseteq p.job_metadata

\* C33: publish_job rejects with an error, before anything goes to the
\* broker, every payload that lacks a required top-level key or a required
\* key of file_info or job_metadata; the queue is left as it was and never
\* holds an incomplete payload.
C33_InvalidPayloadRejected ==
  /\ \A k \in 1..Len(jobLog) :
       ~Complete(jobLog[k].payload) =>
         /\ jobLog[k].error # ""
         /\ ~jobLog[k].to_broker
         /\ jobLog[k].after = jobLog[k].before
  /\ \A i \in 1..Len(queue) : Complete(queue[i])

\* A payload whose top-level keys are all there and whose file_info lacks
\* one key has been rejected.
C33_Witness ==
  \E k \in 1..Len(jobLog) :
    /\ SeqSet(RequiredTop) \subseteq jobLog[k].payload.keys
    /\ jobLog[k].payload.file_info # Null
    /\ Cardinality(jobLog[k].payload.file_info) = Len(RequiredFileInfo) - 1
    /\ jobLog[k].error # ""
    /\ queue = <<>>


----------------------------------------------------------------------------
(* Claims about the gate of the bot's handlers (SpecGate)                  *)

\* The update comes from a user on the whitelist and, when it carries
\* media, from a private chat.
Authorised(u) ==
  /\ u.user_id \in Whitelist
  /\ u.kind = "media" => u.chat = "private"

\* C34: a command or media message from a user who is not on the whitelist,
\* and a media message outside a private chat, changes neither the store
\* (files, jobs, secrets), nor the object store, nor the job queue, nor the
\* album aggregator, and is not replied to.
C34_UnauthorisedUpdateIsSilent ==
  /\ [](inbox.pc = "run" => Authorised(inbox.update))
  /\ [][~Authorised(inbox.update) =>
          /\ UNCHANGED <<files, tg_map, jobs, secrets, s3objects, manifests, queue,
                         buckets, locks>>
          /\ inbox'.replies = inbox.replies]_vars

\* After an update that stored a login code and was replied to, an update
\* from a user off the whitelist has been dropped.
C34_Witness ==
  /\ inbox.pc = "idle"
  /\ inbox.handled = MaxUpdates
  /\ inbox.update.kind \in UpdateKinds
  /\ inbox.update.user_id \notin Whitelist
  /\ inbox.replies = 1
  /\ secrets # NoSecret

\* The untruncated base of item i of the batch being named.
FullBase(i) ==
  LET it  == naming.items[i]
      cap == CaptionSnippet(it.caption)
      b   == BaseOf(Ts, naming.chat_slug, it.sender, naming.message_id,
                    naming.media_group_id, it.ordinal)
  IN IF cap # <<>> THEN b \o <<"_">> \o cap ELSE b

\* C35: every file name the name builder produces is at most 120 characters
\* long and ends with "." and the unmodified extension, and what is ahead of
\* the extension is the base, cut from the right when the name was too long.
C35_NameWithinCap ==
  \A i \in 1..Len(naming.keys) :
    LET name == naming.keys[i].name
        ext  == naming.items[i].ext
        kept == Len(name) - Len(ext) - 1
    IN /\ Len(name) <= SAFE_MAX_FILENAME
       /\ kept >= 0
       /\ SubSeq(name, kept + 1, Len(name)) = <<".">> \o ext
       /\ SubSeq(name, 1, kept) = SubSeq(FullBase(i), 1, kept)

\* C36: the one item of a media group is uploaded under the object key that
\* a message without group id, with the same content and attributes, gets.
C36_GroupOfOneAsSingleton ==
  (naming.pc = "done" /\ Len(naming.keys) = 1 /\ naming.media_group_id # <<>>) =>
     LET it == naming.items[1]
     IN naming.keys[1] =
          ObjectKey(naming.chat_slug, naming.message_id,
                    BuildFilename(Ts, naming.chat_slug, it.sender,
                                  naming.message_id, <<>>, 1, it.caption, it.ext))

\* C38: within one batch, two items with different ordinals are never
\* uploaded under the same object key.
C38_OrdinalsHaveDistinctKeys ==
  \A i, j \in 1..Len(naming.keys) :
    naming.items[i].ordinal # naming.items[j].ordinal =>
      naming.keys[i] # naming.keys[j]

\* The sizes of the items a process_batch call uploaded as new content.
NewItemSizes(f) ==
  LET fresh == SelectSeq(f.outcomes,
                 LAMBDA o : o.s3_key # NoKey /\ ~o.is_duplicate
                            /\ o.skipped_reason = "")
  IN [i \in 1..Len(fresh) |-> fresh[i].size_bytes]

\* C37: the total_bytes_uploaded of every batch result process_batch returns
\* is the sum of the sizes of the items of the batch uploaded as new content,
\* whether or not other items of the batch were resolved as duplicates.
C37_ResultTotalBytes ==
  \A f \in finished :
    f.status = "returned" => f.total_bytes_uploaded = SumSeq(NewItemSizes(f))

----------------------------------------------------------------------------
(* Claims about simulate mode (SpecSimulate)                               *)

\* Handler h is handling a job that was delivered in simulate mode.
SimulatedJob(h) == handler[h].pc # "idle" /\ auth[h].simulated

----------------------------------------------------------------------------
(* Claims about the finalizer loop (FairLoop)                              *)

\* The finalizer is inside the handling of a batch.
InBatch == loop.pc \in {"quota", "route", "notify_jobs", "pipeline", "report", "except"}

\* C40: a failure while the finalizer handles one released batch is
\* contained to that batch: the task ends only when it is cancelled, the
\* step that fails leaves the batches still to come of the same tick in
\* place, every batch of a tick has been handled when the task sleeps again,
\* and after a failure the task goes on to sleep again and through the later
\* ticks unless it is cancelled.
C40_BatchFailureContained ==
  /\ [](loop.pc = "stopped" => loop.cancelled)
  /\ [][(InBatch /\ loop'.pc \in {"except", "next"}) =>
          (loop'.ready = loop.ready /\ loop'.tick = loop.tick)]_vars
  /\ [][(loop.pc = "next" /\ loop'.pc = "sleep") => loop.ready = <<>>]_vars
  /\ [][(loop.pc = "except" /\ loop'.pc # "stopped") =>
          (loop'.pc = "next"
             /\ loop'.results = Append(loop.results, "failed"))]_vars
  /\ (loop.pc = "except") ~> (loop.pc = "sleep" \/ loop.cancelled)
  /\ loop.failed ~> (loop.cancelled \/ (loop.pc = "sleep" /\ loop.tick = MaxTicks))

\* On the last tick the first batch failed and the batch after it was
\* handled; the task sleeps again.
C40_Witness ==
  /\ loop.pc = "sleep"
  /\ loop.tick = MaxTicks
  /\ ~loop.cancelled
  /\ Len(loop.results) = MaxReady
  /\ loop.results[1] = "failed"
  /\ loop.results[Len(loop.results)] = "done"

====
